---- MODULE Spec2Model ----
(***************************************************************************)
(* Crew dashboard: the data normalisation and metrics engine               *)
(* (src/data_processor.py), its date utilities (src/utils/date_utils.py),  *)
(* the alert matrix (src/models/crew.py), the live roster client           *)
(* (src/aims_soap_client.py) and the server routes (src/api_server.py).    *)
(*                                                                         *)
(* Conventions of the model                                                *)
(*  - a date string "DD/MM/YY" is the tuple <<DD, MM, YY>> of its printed  *)
(*    fields; int() of a field and the :02d formatting are the two         *)
(*    directions of that reading;                                          *)
(*  - a time string is a record [kind, h, m]: kind "colon" is "HH:MM",     *)
(*    "digits" is "HHMM", "empty" is "" and "garbage" any other text;      *)
(*  - hours that the code holds as floats rounded to two decimals are      *)
(*    integers in hundredths of an hour (85.01 h is 8501);                 *)
(*  - a dict is a function whose DOMAIN is the set of its keys.            *)
(***************************************************************************)
EXTENDS Integers, Sequences, FiniteSets, TLC

VARIABLES
    processor,  \* the DataProcessor singleton: a record of its attributes
    served,     \* the snapshot the last request returned, None before
    raised,     \* TRUE when the last operation let an exception escape
    last,       \* the last operation, its input and the processor before it
    watcher,    \* the file-watcher thread: its position in a re-parse
    call,       \* the call under way in the pure-function specification
    result      \* what that call returned

vars == <<processor, served, raised, last, watcher, call, result>>

\* Python's None, and a value that is present.
None == <<>>
Some(x) == <<x>>

(***************************************************************************)
(* Temporal utilities                                                      *)
(***************************************************************************)

\* A time string of the shape "HH:MM".
Colon(h, m) == [kind |-> "colon", h |-> h, m |-> m]
\* A time string of the shape "HHMM".
Digits(h, m) == [kind |-> "digits", h |-> h, m |-> m]
EmptyTime == [kind |-> "empty", h |-> 0, m |-> 0]
GarbageTime == [kind |-> "garbage", h |-> 0, m |-> 0]

\* DataProcessor.parse_time: minutes from midnight, None without a colon.
parse_time(time_str) ==
    IF time_str.kind = "colon" THEN Some(time_str.h * 60 + time_str.m)
    ELSE None

\* utils.date_utils.parse_time_to_minutes: also accepts the 4-digit shape.
parse_time_to_minutes(time_str) ==
    IF time_str.kind \in {"colon", "digits"}
    THEN Some(time_str.h * 60 + time_str.m)
    ELSE None

\* datetime.date: the proleptic Gregorian calendar.
IsLeap(year) == (year % 4 = 0 /\ year % 100 # 0) \/ year % 400 = 0

DaysInMonth(year, month) ==
    IF month = 2 THEN (IF IsLeap(year) THEN 29 ELSE 28)
    ELSE IF month \in {4, 6, 9, 11} THEN 30 ELSE 31

\* date(year, month, day) raises ValueError unless this holds.
ValidDate(year, month, day) ==
    /\ month \in 1..12
    /\ day >= 1
    /\ day <= DaysInMonth(year, month)

\* A timedelta that takes every February for 28 days long.
MinusOneDayCommonYear(d) ==
    IF d.day > 1 THEN [d EXCEPT !.day = d.day - 1]
    ELSE IF d.month > 1
         THEN [year |-> d.year, month |-> d.month - 1,
               day |-> IF d.month - 1 = 2 THEN 28
                       ELSE DaysInMonth(d.year, d.month - 1)]
         ELSE [year |-> d.year - 1, month |-> 12, day |-> 31]

\* current_date - timedelta(days=1)
MinusOneDay(d) ==
    IF d.day > 1 THEN [d EXCEPT !.day = d.day - 1]
    ELSE IF d.month > 1
         THEN [year |-> d.year, month |-> d.month - 1,
               day |-> DaysInMonth(d.year, d.month - 1)]
         ELSE [year |-> d.year - 1, month |-> 12, day |-> 31]

\* DataProcessor.get_operating_date
get_operating_date(calendar_date, time_str) ==
    IF time_str.kind = "empty" THEN calendar_date
    ELSE LET time_minutes == parse_time(time_str) IN
         IF time_minutes = None THEN calendar_date
         ELSE IF time_minutes[1] < 240
         THEN LET day == calendar_date[1]
                  month == calendar_date[2]
                  year == IF calendar_date[3] < 100
                          THEN calendar_date[3] + 2000
                          ELSE calendar_date[3]
              IN IF ~ValidDate(year, month, day) THEN calendar_date
                 ELSE LET prev_date ==
                              MinusOneDay([year |-> year, month |-> month,
                                           day |-> day])
                      IN <<prev_date.day, prev_date.month,
                           prev_date.year % 100>>
         ELSE calendar_date

\* strptime(date_str, '%d/%m/%y'): the two-digit year pivots at 69.
parse_date(date_str) ==
    LET year == IF date_str[3] < 69 THEN 2000 + date_str[3]
                ELSE 1900 + date_str[3]
    IN IF ValidDate(year, date_str[2], date_str[1])
       THEN Some([year |-> year, month |-> date_str[2], day |-> date_str[1]])
       ELSE None

\* utils.date_utils.get_operating_date, on a "DD/MM/YY" calendar date
utils_get_operating_date(calendar_date, time_str) ==
    LET time_minutes == parse_time_to_minutes(time_str) IN
    IF time_minutes = None THEN calendar_date
    ELSE LET parsed_date == parse_date(calendar_date) IN
         IF parsed_date = None THEN calendar_date
         ELSE LET operating == IF time_minutes[1] < 4 * 60
                               THEN MinusOneDay(parsed_date[1])
                               ELSE parsed_date[1]
              IN <<operating.day, operating.month, operating.year % 100>>

(***************************************************************************)
(* Compliance evaluator                                                    *)
(***************************************************************************)

\* The tiers with both thresholds inclusive.
InclusiveAlertStatus(block_hours) ==
    IF block_hours >= 9500 THEN "critical"
    ELSE IF block_hours >= 8500 THEN "warning"
    ELSE "normal"

\* DataProcessor.get_alert_status (hours in hundredths)
get_alert_status(block_hours) ==
    IF block_hours > 9500 THEN "critical"
    ELSE IF block_hours > 8500 THEN "warning"
    ELSE "normal"

\* AlertLevel.from_hours (hours in hundredths)
from_hours(hours_28day) ==
    IF hours_28day > 9500 THEN "critical"
    ELSE IF hours_28day > 8500 THEN "warning"
    ELSE "normal"

(***************************************************************************)
(* Dicts, lists and sorting                                                *)
(***************************************************************************)

EmptyDict == <<>>

\* d[k] = v
Put(d, k, v) == [x \in (DOMAIN d) \cup {k} |-> IF x = k THEN v ELSE d[x]]

\* d.get(k, default); also d[k] of a defaultdict read without storing
Get(d, k, default) == IF k \in DOMAIN d THEN d[k] ELSE default

\* the elements of a list, as a set
Range(seq) == {seq[i] : i \in 1..Len(seq)}

\* DataProcessor._parse_date_for_sort: the (year, month, day) sort key
\* (only ever applied to "DD/MM/YY" strings here), compared as tuples.
DateKeyLeq(a, b) ==
    LET ya == IF a[3] < 100 THEN a[3] + 2000 ELSE a[3]
        yb == IF b[3] < 100 THEN b[3] + 2000 ELSE b[3]
    IN \/ ya < yb
       \/ ya = yb /\ a[2] < b[2]
       \/ ya = yb /\ a[2] = b[2] /\ a[1] <= b[1]

\* sorted(list(unique_dates), key=_parse_date_for_sort)
RECURSIVE SortDates(_)
SortDates(S) ==
    IF S = {} THEN <<>>
    ELSE LET m == CHOOSE x \in S : \A y \in S : DateKeyLeq(x, y)
         IN <<m>> \o SortDates(S \ {m})

\* sorted(ids): insertion of one id into a sorted list. Crew ids are digit
\* strings of one length, so their string order is the numeric order.
RECURSIVE InsertSorted(_, _)
InsertSorted(seq, x) ==
    IF seq = <<>> THEN <<x>>
    ELSE IF x <= Head(seq) THEN <<x>> \o seq
    ELSE <<Head(seq)>> \o InsertSorted(Tail(seq), x)

RECURSIVE SortIds(_)
SortIds(seq) ==
    IF seq = <<>> THEN <<>>
    ELSE InsertSorted(SortIds(Tail(seq)), Head(seq))

(***************************************************************************)
(* Record extractors: the flight report                                    *)
(***************************************************************************)

\* A raw crew string is the list of its "-NAME(ROLE) ID" segments; a segment
\* the pattern \(([A-Z]{2})\)\s*(\d+) does not match has role "".
\* DataProcessor.extract_crew_ids: the (role, id) pairs, in order.
RECURSIVE extract_crew_ids(_)
extract_crew_ids(crew_string) ==
    IF crew_string = <<>> THEN <<>>
    ELSE LET seg == Head(crew_string)
             rest == extract_crew_ids(Tail(crew_string))
         IN IF seg.role = "" THEN rest
            ELSE <<[role |-> seg.role, id |-> seg.id]>> \o rest

\* DataProcessor.get_crew_set_key: the sorted tuple of the crew ids
get_crew_set_key(crew_string) ==
    LET crew_list == extract_crew_ids(crew_string)
    IN SortIds([i \in 1..Len(crew_list) |-> crew_list[i].id])

\* DataProcessor.normalize_date on a cell with a slash: "DD/MM" gets the
\* year '26', a longer year keeps its last two digits.
normalize_date(date_str) ==
    IF Len(date_str) > 2
    THEN <<date_str[1], date_str[2], date_str[3] % 100>>
    ELSE <<date_str[1], date_str[2], 26>>

\* DataProcessor._get_flight_key
get_flight_key(flight) == <<flight.date, flight.flt, flight.reg, flight.std>>

\* sta - std in minutes, plus a day when negative; None when either time
\* does not parse. The code adds duration / 60 hours: the indices of the
\* model hold minutes.
FlightMinutes(std_time, sta_time) ==
    LET std == parse_time(std_time)
        sta == parse_time(sta_time)
    IN IF std # None /\ sta # None
       THEN LET duration == sta[1] - std[1]
            IN Some(IF duration < 0 THEN duration + 24 * 60 ELSE duration)
       ELSE None

\* AIMSSoapClient._calculate_block_minutes: 0 when a time is empty, and 0
\* from the except clause when a time has no colon or no integer fields.
aims_calculate_block_minutes(atd, ata) ==
    IF atd.kind = "empty" \/ ata.kind = "empty" THEN 0
    ELSE IF atd.kind = "colon" /\ ata.kind = "colon"
    THEN LET atd_minutes == atd.h * 60 + atd.m
             ata_minutes == ata.h * 60 + ata.m
         IN IF ata_minutes < atd_minutes
            THEN ata_minutes + 24 * 60 - atd_minutes
            ELSE ata_minutes - atd_minutes
    ELSE 0

\* Flight.calculate_block_minutes of models/flight.py: None when a time is
\* empty, and None from the except clause (IndexError without a colon,
\* ValueError on fields that are no integers).
calculate_block_minutes(std, sta) ==
    IF std.kind = "empty" \/ sta.kind = "empty" THEN None
    ELSE IF std.kind = "colon" /\ sta.kind = "colon"
    THEN LET std_min == std.h * 60 + std.m
             sta_min == sta.h * 60 + sta.m
             duration == sta_min - std_min
         IN Some(IF duration < 0 THEN duration + 24 * 60 ELSE duration)
    ELSE None

\* DataProcessor.__init__ with no store connected
DataProcessorInit ==
    [flights |-> <<>>,
     flights_by_date |-> EmptyDict,
     available_dates |-> <<>>,
     crew_to_regs |-> EmptyDict,
     crew_to_regs_by_date |-> EmptyDict,
     crew_roles |-> EmptyDict,
     reg_flight_hours |-> EmptyDict,
     reg_flight_hours_by_date |-> EmptyDict,
     reg_flight_count |-> EmptyDict,
     reg_flight_count_by_date |-> EmptyDict,
     crew_group_rotations |-> EmptyDict,
     crew_group_rotations_by_date |-> EmptyDict,
     ac_utilization |-> EmptyDict,
     ac_utilization_by_date |-> EmptyDict,
     rolling_hours |-> <<>>,
     crew_schedule |-> [summary |-> [t \in {"SL", "CSL", "SBY", "OSBY"} |-> 0]],
     crew_schedule_by_date |-> EmptyDict,
     standby_records |-> <<>>,
     aims_flights |-> <<>>,
     aims_flights_by_date |-> EmptyDict,
     aims_available_dates |-> <<>>,
     aims_maps |-> None,
     upload_date_context |-> None,
     existing_flight_keys |-> {}]

\* The crew part of one flight: lines 533-545 of process_dayrep_csv.
RECURSIVE AddCrew(_, _, _, _)
AddCrew(st, crew_list, operating_date, reg) ==
    IF crew_list = <<>> THEN st
    ELSE LET c == Head(crew_list)
             by_date == Get(st.crew_to_regs_by_date, operating_date, EmptyDict)
             st1 == [st EXCEPT
                 !.crew_to_regs =
                     Put(@, c.id, Get(@, c.id, {}) \cup {reg}),
                 !.crew_to_regs_by_date =
                     Put(@, operating_date,
                         Put(by_date, c.id, Get(by_date, c.id, {}) \cup {reg})),
                 !.crew_roles = Put(@, c.id, c.role)]
         IN AddCrew(st1, Tail(crew_list), operating_date, reg)

\* One data row of the flight report: lines 476-545.
DayrepRow(st, row) ==
    IF row.date = None \/ row.reg = "" THEN st
    ELSE
    LET calendar_date == normalize_date(row.date[1])
        operating_date == get_operating_date(calendar_date, row.std)
        flight == [date |-> operating_date,
                   calendar_date |-> calendar_date,
                   reg |-> row.reg,
                   flt |-> row.flt,
                   std |-> row.std,
                   sta |-> row.sta,
                   crew |-> row.crew,
                   shape |-> "dayrep"]
        st1 == [st EXCEPT
            !.flights = Append(@, flight),
            !.flights_by_date =
                Put(@, operating_date,
                    Append(Get(@, operating_date, <<>>), flight))]
        minutes == FlightMinutes(row.std, row.sta)
        hours_by_date == Get(st1.reg_flight_hours_by_date, operating_date,
                             EmptyDict)
        count_by_date == Get(st1.reg_flight_count_by_date, operating_date,
                             EmptyDict)
        st2 == IF minutes = None THEN st1
               ELSE [st1 EXCEPT
            !.reg_flight_hours = Put(@, row.reg, Get(@, row.reg, 0) + minutes[1]),
            !.reg_flight_count = Put(@, row.reg, Get(@, row.reg, 0) + 1),
            !.reg_flight_hours_by_date =
                Put(@, operating_date,
                    Put(hours_by_date, row.reg,
                        Get(hours_by_date, row.reg, 0) + minutes[1])),
            !.reg_flight_count_by_date =
                Put(@, operating_date,
                    Put(count_by_date, row.reg,
                        Get(count_by_date, row.reg, 0) + 1))]
        crew_list == extract_crew_ids(row.crew)
        st3 == AddCrew(st2, crew_list, operating_date, row.reg)
        crew_set_key == get_crew_set_key(row.crew)
        rot_by_date == Get(st3.crew_group_rotations_by_date, operating_date,
                           EmptyDict)
    IN IF crew_list = <<>> THEN st3
       ELSE [st3 EXCEPT
            !.crew_group_rotations =
                Put(@, crew_set_key, Append(Get(@, crew_set_key, <<>>), row.reg)),
            !.crew_group_rotations_by_date =
                Put(@, operating_date,
                    Put(rot_by_date, crew_set_key,
                        Append(Get(rot_by_date, crew_set_key, <<>>), row.reg)))]

RECURSIVE DayrepRows(_, _)
DayrepRows(st, rows) ==
    IF rows = <<>> THEN st ELSE DayrepRows(DayrepRow(st, Head(rows)), Tail(rows))

\* The reset that opens process_dayrep_csv: lines 415-428.
DayrepReset(st) ==
    [st EXCEPT
        !.flights = <<>>,
        !.flights_by_date = EmptyDict,
        !.available_dates = <<>>,
        !.crew_to_regs = EmptyDict,
        !.crew_to_regs_by_date = EmptyDict,
        !.crew_roles = EmptyDict,
        !.reg_flight_hours = EmptyDict,
        !.reg_flight_hours_by_date = EmptyDict,
        !.reg_flight_count = EmptyDict,
        !.reg_flight_count_by_date = EmptyDict,
        !.crew_group_rotations = EmptyDict,
        !.crew_group_rotations_by_date = EmptyDict]

\* What closes process_dayrep_csv: lines 547-560.
DayrepFinish(st) ==
    LET dates == SortDates(DOMAIN st.flights_by_date)
    IN [st EXCEPT
        !.available_dates = dates,
        !.upload_date_context =
            IF dates # <<>>
            THEN Some([min_date |-> dates[1], max_date |-> dates[Len(dates)],
                       default_date |-> dates[Len(dates)]])
            ELSE @,
        !.existing_flight_keys =
            {get_flight_key(st.flights[i]) : i \in 1..Len(st.flights)}]

\* DataProcessor.process_dayrep_csv. The input is what the caller and the
\* file system supply: "rows" the rows of the uploaded or found file (none
\* when the file is missing), "absent" a path-mode call while other uploads
\* exist and DayRepReport.csv does not (line 447 returns at once).
process_dayrep_csv(st, input) ==
    IF input.kind = "absent" THEN DayrepReset(st)
    ELSE DayrepFinish(DayrepRows(DayrepReset(st), input.rows))

(***************************************************************************)
(* Record extractors: utilization, rolling hours, crew duty                *)
(***************************************************************************)

\* parse_time_to_min of process_sacutil_csv: minutes, 0 without a colon
parse_time_to_min(time_str) ==
    IF time_str.kind = "colon" THEN time_str.h * 60 + time_str.m ELSE 0

\* min_to_time of process_sacutil_csv: "HH:MM" of a number of minutes
min_to_time(minutes) == Colon(minutes \div 60, minutes % 60)

ZeroStats ==
    [dom_block_min |-> 0, int_block_min |-> 0, total_block_min |-> 0,
     dom_cycles |-> 0, int_cycles |-> 0, total_cycles |-> 0,
     last_avg_util |-> ""]

\* stats += one row: lines 717-737
AddStats(stats, row) ==
    [dom_block_min |-> stats.dom_block_min + parse_time_to_min(row.dom_block),
     int_block_min |-> stats.int_block_min + parse_time_to_min(row.int_block),
     total_block_min |->
         stats.total_block_min + parse_time_to_min(row.total_block),
     dom_cycles |-> stats.dom_cycles + row.dom_cycles,
     int_cycles |-> stats.int_cycles + row.int_cycles,
     total_cycles |-> stats.total_cycles + row.total_cycles,
     last_avg_util |-> row.avg_util]

\* the display form of one bucket: lines 743-763
DisplayStats(stats) ==
    [dom_block |-> min_to_time(stats.dom_block_min),
     int_block |-> min_to_time(stats.int_block_min),
     total_block |-> min_to_time(stats.total_block_min),
     dom_cycles |-> stats.dom_cycles,
     int_cycles |-> stats.int_cycles,
     total_cycles |-> stats.total_cycles,
     avg_util |-> stats.last_avg_util]

\* the aircraft-type token of a row, a leading "A" before digits dropped
\* (lines 698-704); tokens are digit strings with or without the "A".
NormalizeAcType(ac_type) ==
    IF ac_type = "A320" THEN "320"
    ELSE IF ac_type = "A321" THEN "321"
    ELSE IF ac_type = "A330" THEN "330"
    ELSE ac_type

\* The row loop of process_sacutil_csv (lines 669-737): acc holds
\* ac_stats_by_date and ac_stats_total.
RECURSIVE SacutilRows(_, _, _)
SacutilRows(acc, rows, report_year) ==
    IF rows = <<>> THEN acc
    ELSE
    LET row == Head(rows)
        skip == \/ row.date = None
                \/ row.ac_type \in {"", "AC", "ACTYPE", "Aircraft", "Date"}
        date_str == <<row.date[1][1], row.date[1][2], report_year % 100>>
        ac_type == NormalizeAcType(row.ac_type)
        of_date == Get(acc.by_date, date_str, EmptyDict)
        acc1 == [by_date |->
                     Put(acc.by_date, date_str,
                         Put(of_date, ac_type,
                             AddStats(Get(of_date, ac_type, ZeroStats), row))),
                 total |->
                     Put(acc.total, ac_type,
                         AddStats(Get(acc.total, ac_type, ZeroStats), row))]
    IN SacutilRows(IF skip THEN acc ELSE acc1, Tail(rows), report_year)

\* DataProcessor.process_sacutil_csv: "absent" is every path that returns
\* right after the reset of lines 596-597 (no file, unreadable file).
process_sacutil_csv(st, input) ==
    IF input.kind = "absent"
    THEN [st EXCEPT !.ac_utilization = EmptyDict,
                    !.ac_utilization_by_date = EmptyDict]
    ELSE
    LET acc == SacutilRows([by_date |-> EmptyDict, total |-> EmptyDict],
                           input.rows, input.year)
    IN [st EXCEPT
        !.ac_utilization =
            [t \in DOMAIN acc.total |-> DisplayStats(acc.total[t])],
        !.ac_utilization_by_date =
            [d \in DOMAIN acc.by_date |->
                [t \in DOMAIN acc.by_date[d] |-> DisplayStats(acc.by_date[d][t])]]]

\* parse_hours of process_rolcrtot_csv, then round(hours, 2): hundredths of
\* an hour. m / 60 never lies half-way between two hundredths.
parse_hours(time_str) ==
    IF time_str.kind = "colon"
    THEN time_str.h * 100 + (time_str.m * 100 + 30) \div 60
    ELSE 0

\* the same value before rounding, in minutes
HoursInMinutes(time_str) ==
    IF time_str.kind = "colon" THEN time_str.h * 60 + time_str.m ELSE 0

\* Lines 881-888 of process_rolcrtot_csv: percentage = hours / 100 * 100
\* (here in minutes, so 95 is 5700 and 85 is 5100), and the status.
RolcrtotStatus(percentage) ==
    IF percentage >= 95 * 60 THEN "critical"
    ELSE IF percentage >= 85 * 60 THEN "warning"
    ELSE "normal"

\* list.sort(key=hours_28day, reverse=True): stable, descending
RECURSIVE InsertByHours(_, _)
InsertByHours(seq, x) ==
    IF seq = <<>> THEN <<x>>
    ELSE IF x.hours_28day >= Head(seq).hours_28day THEN <<x>> \o seq
    ELSE <<Head(seq)>> \o InsertByHours(Tail(seq), x)

RECURSIVE SortByHoursDesc(_)
SortByHoursDesc(seq) ==
    IF seq = <<>> THEN <<>>
    ELSE InsertByHours(SortByHoursDesc(Tail(seq)), Head(seq))

\* The row loop of process_rolcrtot_csv: lines 853-902. The id cell of a
\* row is Some(id), or None when it does not start with a digit.
RECURSIVE RolcrtotRows(_)
RolcrtotRows(rows) ==
    IF rows = <<>> THEN <<>>
    ELSE LET row == Head(rows)
             percentage == HoursInMinutes(row.b28)
             rec == [id |-> row.id[1],
                     name |-> row.name,
                     block_28day |-> row.b28,
                     hours_28day |-> parse_hours(row.b28),
                     percentage |-> percentage,
                     status |-> RolcrtotStatus(percentage)]
         IN (IF row.id = None THEN <<>> ELSE <<rec>>)
            \o RolcrtotRows(Tail(rows))

\* DataProcessor.process_rolcrtot_csv
process_rolcrtot_csv(st, input) ==
    IF input.kind = "absent" THEN [st EXCEPT !.rolling_hours = <<>>]
    ELSE [st EXCEPT !.rolling_hours = SortByHoursDesc(RolcrtotRows(input.rows))]

\* A matrix cell is the list of its characters, stripped and upper-cased.
\* tok in val
Contains(val, tok) ==
    \E i \in 1..(Len(val) - Len(tok) + 1) :
        SubSeq(val, i, i + Len(tok) - 1) = tok

\* A classification that looks for "SL" before "CS".
SlBeforeCsDutyType(val) ==
    IF Contains(val, <<"S", "B", "Y">>) /\ ~Contains(val, <<"O", "S", "B", "Y">>)
    THEN "SBY"
    ELSE IF Contains(val, <<"O", "S", "B", "Y">>) THEN "OSBY"
    ELSE IF Contains(val, <<"S", "L">>) THEN "SL"
    ELSE IF Contains(val, <<"C", "S">>) THEN "CSL"
    ELSE IF Contains(val, <<"F", "G", "T">>) THEN "FGT"
    ELSE IF Contains(val, <<"O", "F", "F">>) THEN "OFF"
    ELSE ""

\* The duty type of a matrix cell: lines 1177-1189.
MatrixDutyType(val) ==
    IF Contains(val, <<"S", "B", "Y">>) /\ ~Contains(val, <<"O", "S", "B", "Y">>)
    THEN "SBY"
    ELSE IF Contains(val, <<"O", "S", "B", "Y">>) THEN "OSBY"
    ELSE IF Contains(val, <<"C", "S">>) THEN "CSL"
    ELSE IF Contains(val, <<"S", "L">>) THEN "SL"
    ELSE IF Contains(val, <<"F", "G", "T">>) THEN "FGT"
    ELSE IF Contains(val, <<"O", "F", "F">>) THEN "OFF"
    ELSE ""

\* the default value of the crew_schedule_by_date defaultdict: line 39
DefaultCounts == [t \in {"SL", "CSL", "SBY", "OSBY"} |-> 0]

\* the summary a parse starts from: lines 938 and 990
ParseSummary ==
    [t \in {"SL", "CSL", "SBY", "OSBY", "FGT", "OFF", "NO_DUTY"} |-> 0]

\* One duty hit that adds n to the counts and stores a single record.
AddDutyOneRecord(st, row, duty_type, duty_date, n) ==
    LET counts == Get(st.crew_schedule_by_date, duty_date, DefaultCounts)
    IN [st EXCEPT
        !.crew_schedule_by_date =
            Put(@, duty_date, Put(counts, duty_type, Get(counts, duty_type, 0) + n)),
        !.crew_schedule.summary[duty_type] = @ + n,
        !.standby_records =
            Append(@, [crew_id |-> row.crew_id[1], crew_name |-> row.name,
                       duty_type |-> duty_type, duty_date |-> duty_date])]

\* One duty hit: lines 1191-1206 (matrix) with n = 1, lines 1229-1243
\* (standard) with n = count.
AddDuty(st, row, duty_type, duty_date, n) ==
    LET counts == Get(st.crew_schedule_by_date, duty_date, DefaultCounts)
        rec == [crew_id |-> row.crew_id[1],
                crew_name |-> row.name,
                duty_type |-> duty_type,
                duty_date |-> duty_date]
        recs == [i \in 1..n |-> rec]
    IN [st EXCEPT
        !.crew_schedule_by_date =
            Put(@, duty_date, Put(counts, duty_type, Get(counts, duty_type, 0) + n)),
        !.crew_schedule.summary[duty_type] = @ + n,
        !.standby_records = @ \o recs]

\* The date columns of one matrix row, in header order: lines 1172-1206.
\* The result carries row_has_duty along.
RECURSIVE MatrixCells(_, _, _, _, _)
MatrixCells(acc, row, date_cols, i, n) ==
    IF i > n THEN acc
    ELSE LET val == IF i <= Len(row.cells) THEN row.cells[i] ELSE <<>>
             duty_type == MatrixDutyType(val)
         IN IF val = <<>> \/ duty_type = ""
            THEN MatrixCells(acc, row, date_cols, i + 1, n)
            ELSE MatrixCells([st |-> AddDuty(acc.st, row, duty_type,
                                             date_cols[i], 1),
                              row_has_duty |-> TRUE],
                             row, date_cols, i + 1, n)

\* One data row in matrix layout: lines 1168-1212.
MatrixRow(st, row, date_cols) ==
    LET done == MatrixCells([st |-> st, row_has_duty |-> FALSE], row,
                            date_cols, 1, Len(date_cols))
    IN IF done.row_has_duty THEN done.st
       ELSE [done.st EXCEPT !.crew_schedule.summary["NO_DUTY"] = @ + 1]

\* One data row in standard layout: lines 1214-1245.
StandardRow(st, row, default_date) ==
    LET st1 == IF row.sl > 0 THEN AddDuty(st, row, "SL", default_date, row.sl)
               ELSE st
        st2 == IF row.csl > 0 THEN AddDuty(st1, row, "CSL", default_date, row.csl)
               ELSE st1
        st3 == IF row.sby > 0 THEN AddDuty(st2, row, "SBY", default_date, row.sby)
               ELSE st2
    IN IF row.osby > 0 THEN AddDuty(st3, row, "OSBY", default_date, row.osby)
       ELSE st3

\* The row loop of process_crew_schedule_csv: lines 1153-1245. A row whose
\* id cell does not start with a digit has crew_id None and is skipped.
RECURSIVE CrewScheduleRows(_, _, _, _, _)
CrewScheduleRows(st, rows, is_matrix, date_cols, default_date) ==
    IF rows = <<>> THEN st
    ELSE LET row == Head(rows)
             st1 == IF row.crew_id = None THEN st
                    ELSE IF is_matrix THEN MatrixRow(st, row, date_cols)
                    ELSE StandardRow(st, row, default_date)
         IN CrewScheduleRows(st1, Tail(rows), is_matrix, date_cols, default_date)

\* The reset that opens process_crew_schedule_csv: lines 933-942.
CrewScheduleReset(st) ==
    [st EXCEPT !.crew_schedule = [summary |-> ParseSummary],
               !.standby_records = <<>>]

\* The date strings of the day columns of a matrix header (lines 1076-1088
\* and 1109-1117): day_cols are the header's day numbers in column order.
DateCols(day_cols, report_month, report_year, now_year) ==
    LET actual_year == IF report_year = 2025 /\ now_year = 2026 THEN 2026
                       ELSE report_year
    IN [i \in 1..Len(day_cols) |->
            <<day_cols[i], report_month, actual_year % 100>>]

\* What closes process_crew_schedule_csv: lines 1270-1281.
CrewScheduleFinish(st) ==
    LET record_dates ==
            SortDates({st.standby_records[i].duty_date :
                           i \in 1..Len(st.standby_records)})
    IN [st EXCEPT
        !.upload_date_context =
            IF record_dates # <<>>
            THEN Some([min_date |-> record_dates[1],
                       max_date |-> record_dates[Len(record_dates)],
                       default_date |-> record_dates[1]])
            ELSE @]

\* DataProcessor.process_crew_schedule_csv. "absent": no content was passed
\* and no file is found or readable, so the call returns 0 at lines 981-987.
\* "empty": the content has no row (line 997). "content": the report, its
\* layout and reference month and year as lines 1005-1139 detect them.
process_crew_schedule_csv(st, input) ==
    IF input.kind = "absent" THEN CrewScheduleReset(st)
    ELSE
    LET st1 == [CrewScheduleReset(st) EXCEPT
                   !.crew_schedule.summary = ParseSummary,
                   !.crew_schedule_by_date = EmptyDict,
                   !.standby_records = <<>>]
    IN IF input.kind = "empty" THEN st1
       ELSE CrewScheduleFinish(
                CrewScheduleRows(
                    st1, input.rows, input.layout = "matrix",
                    DateCols(input.day_cols, input.month, input.year,
                             input.now_year),
                    <<15, input.month, input.year % 100>>))

(***************************************************************************)
(* Aggregation engine                                                      *)
(***************************************************************************)

\* d[k] of a defaultdict: a missing key is stored with the default value.
Vivify(d, k, default) == IF k \in DOMAIN d THEN d ELSE Put(d, k, default)

\* f['reg'] raises KeyError on a flight dict that has no 'reg' key: the
\* dicts of AIMSSoapClient.get_flight_details carry 'ac_reg' instead.
HasRegKey(f) == f.shape \in {"dayrep", "aims_mapped"}

\* f.get('crew', '') and f.get('flt', '')
CrewOf(f) == IF f.shape = "dayrep" THEN f.crew ELSE <<>>
FltOf(f) == IF HasRegKey(f) THEN f.flt ELSE ""

\* the characters of the sample registrations
RegChars(reg) ==
    CASE reg = "VN-A320" -> <<"V", "N", "-", "A", "3", "2", "0">>
      [] reg = "VN-A321" -> <<"V", "N", "-", "A", "3", "2", "1">>
      [] reg = "A6-XYZ" -> <<"A", "6", "-", "X", "Y", "Z">>
      [] reg = "VN-A330" -> <<"V", "N", "-", "A", "3", "3", "0">>
      [] OTHER -> <<"V", "J">>

\* the aircraft type the fallback gives a registration: lines 1330-1333
FallbackAcType(reg) ==
    LET c == RegChars(reg)
    IN IF Contains(c, <<"A", "3", "2", "1">>) \/ SubSeq(c, 1, 2) = <<"A", "6">>
       THEN "321"
       ELSE IF Contains(c, <<"A", "3", "3", "0">>) THEN "330"
       ELSE "320"

RECURSIVE SumOver(_, _)
SumOver(f, S) ==
    IF S = {} THEN 0
    ELSE LET x == CHOOSE y \in S : TRUE IN f[x] + SumOver(f, S \ {x})

\* round(minutes / 60, 1) in tenths of an hour. The sample flights last a
\* multiple of six minutes, so no value lies half-way between two tenths.
RoundTenths(minutes) == (minutes * 10 + 30) \div 60

\* Utilization derived from the flight hours: lines 1326-1349. The code
\* holds hours as floats and prints int(hours * 60) minutes, which is the
\* number of minutes for the durations of the sample flights (multiples of
\* 30 minutes).
FallbackUtilization(reg_flight_hours, reg_flight_count) ==
    LET types == {FallbackAcType(r) : r \in DOMAIN reg_flight_hours}
        regs_of(t) == {r \in DOMAIN reg_flight_hours : FallbackAcType(r) = t}
        cycles(t) == SumOver([r \in regs_of(t) |-> Get(reg_flight_count, r, 0)],
                             regs_of(t))
        block(t) == SumOver(reg_flight_hours, regs_of(t))
    IN [t \in types |->
           [total_block |-> min_to_time(block(t)),
            total_cycles |-> cycles(t),
            dom_block |-> min_to_time(block(t)),
            int_block |-> Colon(0, 0),
            avg_util |-> "-"]]

\* The keys of a flight-built dict in insertion order: a crew group enters
\* the rotation index at its first flight.
RECURSIVE GroupKeysInOrder(_, _)
GroupKeysInOrder(flights, seen) ==
    IF flights = <<>> THEN <<>>
    ELSE LET key == get_crew_set_key(CrewOf(Head(flights)))
         IN IF key = <<>> \/ key \in seen
            THEN GroupKeysInOrder(Tail(flights), seen)
            ELSE <<key>> \o GroupKeysInOrder(Tail(flights), seen \cup {key})

RECURSIVE SetToSeq(_)
SetToSeq(S) ==
    IF S = {} THEN <<>>
    ELSE LET x == CHOOSE y \in S : TRUE IN <<x>> \o SetToSeq(S \ {x})

\* crew_group_rotations.items(): keys the flights explain come in flight
\* order, any other key after them.
RotationKeys(crew_group_rotations, flights) ==
    LET ordered == SelectSeq(GroupKeysInOrder(flights, {}),
                             LAMBDA k : k \in DOMAIN crew_group_rotations)
    IN ordered \o SetToSeq(DOMAIN crew_group_rotations \ Range(ordered))

\* A rotation entry that counts a rotation for every further flight of the
\* group, on the same aircraft or not.
RotationDetailPerFlight(st, flights, crew_set_key, regs_list) ==
    [crew_ids |-> crew_set_key,
     crew_count |-> Len(crew_set_key),
     role |-> Get(st.crew_roles, crew_set_key[1], "UNK"),
     regs |-> Range(regs_list),
     flights |-> {FltOf(flights[i]) : i \in
                     {j \in 1..Len(flights) :
                          get_crew_set_key(CrewOf(flights[j])) = crew_set_key}},
     rotations |-> Len(regs_list) - 1]

\* One rotation entry: lines 1404-1431. regs and flights are sorted lists
\* of distinct values in the code, sets here.
RotationDetail(st, flights, crew_set_key, regs_list) ==
    [crew_ids |-> crew_set_key,
     crew_count |-> Len(crew_set_key),
     role |-> Get(st.crew_roles, crew_set_key[1], "UNK"),
     regs |-> Range(regs_list),
     flights |-> {FltOf(flights[i]) : i \in
                     {j \in 1..Len(flights) :
                          get_crew_set_key(CrewOf(flights[j])) = crew_set_key}},
     rotations |-> Cardinality(Range(regs_list)) - 1]

\* list.sort(key=(-rotations, -crew_count)): stable
RotationBefore(a, b) ==
    \/ a.rotations > b.rotations
    \/ a.rotations = b.rotations /\ a.crew_count >= b.crew_count

RECURSIVE InsertRotation(_, _)
InsertRotation(seq, x) ==
    IF seq = <<>> THEN <<x>>
    ELSE IF RotationBefore(x, Head(seq)) THEN <<x>> \o seq
    ELSE <<Head(seq)>> \o InsertRotation(Tail(seq), x)

RECURSIVE SortRotations(_)
SortRotations(seq) ==
    IF seq = <<>> THEN <<>>
    ELSE InsertRotation(SortRotations(Tail(seq)), Head(seq))

\* The rotation loop: lines 1401-1434.
RotationDetails(st, flights, crew_group_rotations) ==
    LET keys == SelectSeq(RotationKeys(crew_group_rotations, flights),
                    LAMBDA k : Cardinality(Range(crew_group_rotations[k])) >= 2)
    IN SortRotations([i \in 1..Len(keys) |->
           RotationDetail(st, flights, keys[i], crew_group_rotations[keys[i]])])

\* the first n elements of a list: seq[:n]
Take(seq, n) == SubSeq(seq, 1, IF Len(seq) < n THEN Len(seq) ELSE n)

\* round(num / den, 0) to the nearest integer, the even one at a tie
RoundDiv(num, den) ==
    LET q == num \div den
        r == num % den
    IN IF 2 * r < den THEN q
       ELSE IF 2 * r > den THEN q + 1
       ELSE IF q % 2 = 0 THEN q ELSE q + 1

\* the place of a crew name in the order of Python strings
NameOrd(name) ==
    CASE name = "AN" -> 1
      [] name = "BINH" -> 2
      [] name = "CUC" -> 3
      [] name = "DUNG" -> 4
      [] name = "Unknown" -> 5
      [] OTHER -> 6

\* role_order.get(role, 99): line 1472
RoleOrder(role) ==
    CASE role = "CP" -> 1
      [] role = "FO" -> 2
      [] role = "PU" -> 3
      [] role = "FA" -> 4
      [] OTHER -> 99

\* the name the rolling hours give a crew id: lines 1458-1463
RECURSIVE LookupName(_, _)
LookupName(rolling_hours, crew_id) ==
    IF rolling_hours = <<>> THEN "Unknown"
    ELSE IF Head(rolling_hours).id = crew_id THEN Head(rolling_hours).name
    ELSE LookupName(Tail(rolling_hours), crew_id)

\* The loop of lines 1441-1469 without the test of counted_crew: a crew
\* member is tabulated once per flight.
RECURSIVE CountCrewPerFlight(_, _, _)
CountCrewPerFlight(acc, pairs, rolling_hours) ==
    IF pairs = <<>> THEN acc
    ELSE LET c == Head(pairs)
         IN CountCrewPerFlight(
                [role_counts |->
                     Put(acc.role_counts, c.role,
                         Get(acc.role_counts, c.role, 0) + 1),
                 counted_crew |-> acc.counted_crew \cup {c.id},
                 operating_crew |->
                     Append(acc.operating_crew,
                            [id |-> c.id, role |-> c.role,
                             name |-> LookupName(rolling_hours, c.id)])],
                Tail(pairs), rolling_hours)

\* The loop of lines 1441-1469 over the (role, id) pairs of all flights:
\* acc holds role_counts, counted_crew and operating_crew.
RECURSIVE CountCrew(_, _, _)
CountCrew(acc, pairs, rolling_hours) ==
    IF pairs = <<>> THEN acc
    ELSE LET c == Head(pairs)
             acc1 == [role_counts |->
                          Put(acc.role_counts, c.role,
                              Get(acc.role_counts, c.role, 0) + 1),
                      counted_crew |-> acc.counted_crew \cup {c.id},
                      operating_crew |->
                          Append(acc.operating_crew,
                                 [id |-> c.id, role |-> c.role,
                                  name |-> LookupName(rolling_hours, c.id)])]
         IN CountCrew(IF c.id \in acc.counted_crew THEN acc ELSE acc1,
                      Tail(pairs), rolling_hours)

RECURSIVE AllCrewPairs(_)
AllCrewPairs(flights) ==
    IF flights = <<>> THEN <<>>
    ELSE extract_crew_ids(CrewOf(Head(flights))) \o AllCrewPairs(Tail(flights))

\* operating_crew.sort(key=(role_order, name)): stable
CrewBefore(a, b) ==
    \/ RoleOrder(a.role) < RoleOrder(b.role)
    \/ RoleOrder(a.role) = RoleOrder(b.role) /\ NameOrd(a.name) <= NameOrd(b.name)

RECURSIVE InsertCrew(_, _)
InsertCrew(seq, x) ==
    IF seq = <<>> THEN <<x>>
    ELSE IF CrewBefore(x, Head(seq)) THEN <<x>> \o seq
    ELSE <<Head(seq)>> \o InsertCrew(Tail(seq), x)

RECURSIVE SortCrew(_)
SortCrew(seq) ==
    IF seq = <<>> THEN <<>>
    ELSE InsertCrew(SortCrew(Tail(seq)), Head(seq))

\* Aircraft details, lines 1476-1485: one entry per registration of the
\* view, in the order of the registrations; hours in tenths.
AircraftData(reg_flight_hours, reg_flight_count) ==
    [reg \in DOMAIN reg_flight_hours |->
        [total_hours |-> RoundTenths(reg_flight_hours[reg]),
         flights |-> reg_flight_count[reg],
         avg_per_flight |->
             IF reg_flight_count[reg] > 0
             THEN RoundDiv(reg_flight_hours[reg] * 10, 60 * reg_flight_count[reg])
             ELSE 0]]

\* rolling_stats of lines 1488-1491
RollingStats(rolling_hours) ==
    [s \in {"normal", "warning", "critical"} |->
        Cardinality({i \in 1..Len(rolling_hours) : rolling_hours[i].status = s})]

\* A rate is the exact fraction num / den of the float the code computes.
Rate(num, den) == [num |-> num, den |-> den]

\* compliance_rate of lines 1489-1495
ComplianceRate(rolling_hours) ==
    LET rolling_stats == RollingStats(rolling_hours)
    IN IF rolling_hours = <<>> THEN Rate(0, 1)
       ELSE Rate((rolling_stats["normal"] + rolling_stats["warning"]) * 100,
                 Len(rolling_hours))

\* The day before within the month only: no date before the first.
PreviousDayOfMonth(filter_date) ==
    IF filter_date[1] \in 2..31 /\ filter_date[2] \in 1..12
    THEN Some(<<filter_date[1] - 1, filter_date[2], filter_date[3]>>)
    ELSE None

\* datetime.strptime(filter_date, "%d/%m/%y") - timedelta(days=1), as
\* "%d/%m/%y" again; None when strptime raises.
PreviousDate(filter_date) ==
    LET year == IF filter_date[3] < 69 THEN 2000 + filter_date[3]
                ELSE 1900 + filter_date[3]
    IN IF filter_date[3] \in 0..99 /\ ValidDate(year, filter_date[2], filter_date[1])
       THEN LET p == MinusOneDay([year |-> year, month |-> filter_date[2],
                                  day |-> filter_date[1]])
            IN Some(<<p.day, p.month, p.year % 100>>)
       ELSE None

\* Flight trend against the day before: lines 1530-1548.
FlightTrend(st, filter_date, total_flights) ==
    LET prev == IF filter_date = None THEN None ELSE PreviousDate(filter_date)
        prev_count == IF prev # None /\ prev[1] \in DOMAIN st.flights_by_date
                      THEN Len(st.flights_by_date[prev[1]])
                      ELSE 0
        diff == total_flights - prev_count
    IN IF prev_count > 0
       THEN [flight_trend |-> Rate(diff * 100, prev_count),
             flight_trend_direction |->
                 IF diff > 0 THEN "up" ELSE IF diff < 0 THEN "down" ELSE "neutral"]
       ELSE [flight_trend |-> Rate(0, 1), flight_trend_direction |-> "neutral"]

\* sorted(all_dates, key=(year, month, day)) of lines 1501-1527, with no
\* date_context as the routes call it
SnapshotDateLeq(a, b) ==
    \/ a[3] < b[3]
    \/ a[3] = b[3] /\ a[2] < b[2]
    \/ a[3] = b[3] /\ a[2] = b[2] /\ a[1] <= b[1]

RECURSIVE SortSnapshotDates(_)
SortSnapshotDates(S) ==
    IF S = {} THEN <<>>
    ELSE LET m == CHOOSE x \in S : \A y \in S : SnapshotDateLeq(x, y)
         IN <<m>> \o SortSnapshotDates(S \ {m})

MergedAvailableDates(st) ==
    SortSnapshotDates(Range(st.available_dates)
        \cup {st.standby_records[i].duty_date : i \in 1..Len(st.standby_records)})

\* A summary that counts the four standby and sick types only.
FourTypeSummary(filtered_standby) ==
    [t \in {"SL", "CSL", "SBY", "OSBY", "FGT", "OFF"} |->
        IF t \in {"FGT", "OFF"} THEN 0
        ELSE Cardinality({i \in 1..Len(filtered_standby) :
                              filtered_standby[i].duty_type = t})]

\* filtered_summary of lines 1584-1591
FilteredSummary(filtered_standby) ==
    [t \in {"SL", "CSL", "SBY", "OSBY", "FGT", "OFF"} |->
        Cardinality({i \in 1..Len(filtered_standby) :
                         filtered_standby[i].duty_type = t})]

\* The processor after lines 1291-1311 chose the view: reading the four
\* per-date defaultdicts at filter_date stores an empty entry where the
\* date has none.
ViewState(st, filter_date) ==
    IF filter_date # None /\ filter_date \in DOMAIN st.flights_by_date
    THEN [st EXCEPT
             !.crew_to_regs_by_date = Vivify(@, filter_date, EmptyDict),
             !.reg_flight_hours_by_date = Vivify(@, filter_date, EmptyDict),
             !.reg_flight_count_by_date = Vivify(@, filter_date, EmptyDict),
             !.crew_group_rotations_by_date = Vivify(@, filter_date, EmptyDict)]
    ELSE st

\* A view that shows all flights when the date asked for has none.
ActiveViewOrAll(st, filter_date) ==
    IF filter_date = None \/ filter_date \notin DOMAIN st.flights_by_date
    THEN [flights |-> st.flights,
          crew_to_regs |-> st.crew_to_regs,
          reg_flight_hours |-> st.reg_flight_hours,
          reg_flight_count |-> st.reg_flight_count,
          crew_group_rotations |-> st.crew_group_rotations]
    ELSE [flights |-> st.flights_by_date[filter_date],
          crew_to_regs |-> Get(st.crew_to_regs_by_date, filter_date, EmptyDict),
          reg_flight_hours |->
              Get(st.reg_flight_hours_by_date, filter_date, EmptyDict),
          reg_flight_count |->
              Get(st.reg_flight_count_by_date, filter_date, EmptyDict),
          crew_group_rotations |->
              Get(st.crew_group_rotations_by_date, filter_date, EmptyDict)]

\* The view itself: lines 1291-1311.
ActiveView(st, filter_date) ==
    IF filter_date = None
    THEN [flights |-> st.flights,
          crew_to_regs |-> st.crew_to_regs,
          reg_flight_hours |-> st.reg_flight_hours,
          reg_flight_count |-> st.reg_flight_count,
          crew_group_rotations |-> st.crew_group_rotations]
    ELSE IF filter_date \in DOMAIN st.flights_by_date
    THEN [flights |-> st.flights_by_date[filter_date],
          crew_to_regs |-> Get(st.crew_to_regs_by_date, filter_date, EmptyDict),
          reg_flight_hours |->
              Get(st.reg_flight_hours_by_date, filter_date, EmptyDict),
          reg_flight_count |->
              Get(st.reg_flight_count_by_date, filter_date, EmptyDict),
          crew_group_rotations |->
              Get(st.crew_group_rotations_by_date, filter_date, EmptyDict)]
    ELSE [flights |-> <<>>,
          crew_to_regs |-> EmptyDict,
          reg_flight_hours |-> EmptyDict,
          reg_flight_count |-> EmptyDict,
          crew_group_rotations |-> EmptyDict]

\* A choice that takes the all-dates totals before the figures of the date.
UtilizationTotalsFirst(st, view, filter_date) ==
    IF DOMAIN st.ac_utilization # {} THEN st.ac_utilization
    ELSE IF filter_date # None
            /\ filter_date \in DOMAIN st.ac_utilization_by_date
    THEN st.ac_utilization_by_date[filter_date]
    ELSE FallbackUtilization(view.reg_flight_hours, view.reg_flight_count)

\* utilization_data: lines 1315-1349
UtilizationData(st, view, filter_date) ==
    IF filter_date # None /\ filter_date \in DOMAIN st.ac_utilization_by_date
    THEN st.ac_utilization_by_date[filter_date]
    ELSE IF DOMAIN st.ac_utilization # {} THEN st.ac_utilization
    ELSE FallbackUtilization(view.reg_flight_hours, view.reg_flight_count)

\* The snapshot of lines 1550-1604. A flag the overlay has not set is None.
BuildSnapshot(st, view, filter_date) ==
    LET flights == view.flights
        total_minutes == SumOver(view.reg_flight_hours, DOMAIN view.reg_flight_hours)
        rotation_details ==
            RotationDetails(st, flights, view.crew_group_rotations)
        crew == CountCrew([role_counts |-> EmptyDict, counted_crew |-> {},
                           operating_crew |-> <<>>],
                          AllCrewPairs(flights), st.rolling_hours)
        trend == FlightTrend(st, filter_date, Len(flights))
        filtered_standby ==
            SelectSeq(st.standby_records, LAMBDA r : r.duty_date = filter_date)
    IN [summary |->
            [total_aircraft |->
                 Cardinality({flights[i].reg : i \in 1..Len(flights)} \ {""}),
             total_flights |-> Len(flights),
             flight_trend |-> trend.flight_trend,
             flight_trend_direction |-> trend.flight_trend_direction,
             total_crew |-> Cardinality(DOMAIN view.crew_to_regs),
             crew_rotation_count |->
                 Cardinality({k \in DOMAIN view.crew_group_rotations :
                     Cardinality(Range(view.crew_group_rotations[k])) >= 2}),
             avg_flight_hours |->
                 IF DOMAIN view.reg_flight_hours = {} THEN 0
                 ELSE RoundDiv(total_minutes * 10,
                               60 * Cardinality(DOMAIN view.reg_flight_hours)),
             total_block_hours |-> RoundTenths(total_minutes)],
        available_dates |-> MergedAvailableDates(st),
        current_filter_date |-> filter_date,
        compliance_rate |-> ComplianceRate(st.rolling_hours),
        crew_roles |-> crew.role_counts,
        operating_crew |-> SortCrew(crew.operating_crew),
        aircraft |-> AircraftData(view.reg_flight_hours, view.reg_flight_count),
        crew_rotations |-> Take(rotation_details, 20),
        utilization |-> UtilizationData(st, view, filter_date),
        rolling_hours |-> Take(st.rolling_hours, 50),
        rolling_stats |-> RollingStats(st.rolling_hours),
        crew_schedule |->
            IF filter_date # None
            THEN [st.crew_schedule EXCEPT
                     !.summary = FilteredSummary(filtered_standby)]
            ELSE st.crew_schedule,
        standby_records |->
            IF filter_date # None THEN filtered_standby ELSE st.standby_records,
        is_aims_source |-> FALSE,
        crew_status_source |-> None,
        data_source_crew |-> None]

\* Lines 1313-1604 on the chosen view: the KeyError of line 1313 when a
\* flight of the view has no 'reg' key, the snapshot otherwise.
MetricsOfView(st, view, filter_date) ==
    IF \E i \in 1..Len(view.flights) : ~HasRegKey(view.flights[i])
    THEN [st |-> st, raised |-> TRUE, data |-> None]
    ELSE [st |-> st, raised |-> FALSE,
          data |-> Some(BuildSnapshot(st, view, filter_date))]

MetricsOfState(st, filter_date) ==
    MetricsOfView(st, ActiveView(st, filter_date), filter_date)

\* DataProcessor.calculate_metrics: the processor it leaves, and the
\* snapshot it returns or the exception it raises.
calculate_metrics(st, filter_date) ==
    MetricsOfState(ViewState(st, filter_date), filter_date)

(***************************************************************************)
(* Live overlay and source selection                                       *)
(***************************************************************************)

\* A flight number with and without its carrier prefix: lines 1736-1737.
FlightNoAliases(f_no) ==
    CASE f_no = "VJ101" -> {"VJ101", "101"}
      [] f_no = "101" -> {"101", "VJ101"}
      [] f_no = "VJ102" -> {"VJ102", "102"}
      [] f_no = "102" -> {"102", "VJ102"}
      [] OTHER -> {f_no}

\* f.get('flight_date') or f.get('date') or '', f.get('flight_no') or
\* f.get('flt') or '', f.get('reg') or f.get('ac_reg'): lines 1730-1733
OverlayDateOf(f) ==
    IF f.shape = "dayrep" THEN f.date
    ELSE IF f.flight_date # None
         THEN (IF f.date_sep = "/" THEN f.flight_date ELSE <<>>)
    ELSE IF f.shape = "aims_mapped" THEN f.date
    ELSE <<>>
OverlayNoOf(f) == IF f.shape = "dayrep" THEN f.flt ELSE f.flight_no
OverlayRegOf(f) == IF f.shape = "dayrep" THEN f.reg ELSE f.ac_reg

\* flight_reg_map of lines 1725-1737: target is <<day, month, full year>>.
RECURSIVE FlightRegMap(_, _, _)
FlightRegMap(map, current_flights, target) ==
    IF current_flights = <<>> THEN map
    ELSE LET f == Head(current_flights)
             f_date == OverlayDateOf(f)
             on_day == /\ Len(f_date) = 3
                       /\ f_date[1] = target[1] /\ f_date[2] = target[2]
                       /\ f_date[3] \in {target[3], target[3] % 100}
             f_no == OverlayNoOf(f)
             reg == OverlayRegOf(f)
             map1 == [k \in DOMAIN map \cup FlightNoAliases(f_no) |->
                         IF k \in FlightNoAliases(f_no) THEN reg ELSE map[k]]
         IN FlightRegMap(IF on_day /\ f_no # "" /\ reg # "" THEN map1 ELSE map,
                         Tail(current_flights), target)

\* new_operating_crew and new_role_counts: lines 1706-1718. The id of a
\* live crew member is a number, 0 for the empty string.
RECURSIVE LiveCrew(_, _)
LiveCrew(acc, members) ==
    IF members = <<>> THEN acc
    ELSE LET crew == Head(members)
             counted == IF crew.role \in DOMAIN acc.counts THEN crew.role ELSE "FA"
             acc1 == [seen |-> acc.seen \cup {crew.id},
                      counts |-> [acc.counts EXCEPT ![counted] = @ + 1],
                      list |-> Append(acc.list,
                                      [id |-> crew.id, name |-> crew.name,
                                       role |-> crew.role])]
         IN LiveCrew(IF crew.id = 0 \/ crew.id \in acc.seen THEN acc ELSE acc1,
                     Tail(members))

RECURSIVE LegMembers(_)
LegMembers(legs) ==
    IF legs = <<>> THEN <<>> ELSE Head(legs).crew \o LegMembers(Tail(legs))

\* the first rotation code of a leg's crew, "" when none: lines 1743-1746
RECURSIVE LegRotation(_)
LegRotation(members) ==
    IF members = <<>> THEN ""
    ELSE IF Head(members).rotation # "" THEN Head(members).rotation
    ELSE LegRotation(Tail(members))

\* the sorted ids of a leg's crew: line 1747
LegCrewIds(members) ==
    LET with_id == SelectSeq(members, LAMBDA c : c.id # 0)
    IN SortIds([i \in 1..Len(with_id) |-> with_id[i].id])

\* the legs of one rotation code as crte_groups holds them: lines 1739-1748
GroupLegs(legs, flight_reg_map, crte) ==
    LET mine == SelectSeq(legs, LAMBDA l : LegRotation(l.crew) = crte)
    IN [i \in 1..Len(mine) |->
           [flt |-> mine[i].flight_no,
            reg |-> Get(flight_reg_map, mine[i].flight_no, ""),
            crew_ids |-> LegCrewIds(mine[i].crew)]]

\* regs of lines 1752-1754: the registrations in leg order, repeats of the
\* one just before dropped
RECURSIVE ChangingRegs(_, _)
ChangingRegs(regs, group) ==
    IF group = <<>> THEN regs
    ELSE LET reg == Head(group).reg
         IN ChangingRegs(IF reg # "" /\ (regs = <<>> \/ reg # regs[Len(regs)])
                         THEN Append(regs, reg) ELSE regs,
                         Tail(group))

\* lead_role of lines 1758-1764
LeadRole(main_crew, new_operating_crew) ==
    LET roles == {new_operating_crew[i].role : i \in
                     {j \in 1..Len(new_operating_crew) :
                          new_operating_crew[j].id \in Range(main_crew)}}
    IN IF "CP" \in roles THEN "CP" ELSE IF "FO" \in roles THEN "FO" ELSE "FA"

\* the rotation codes in the order crte_groups met them
RECURSIVE RotationCodes(_, _)
RotationCodes(legs, seen) ==
    IF legs = <<>> THEN <<>>
    ELSE LET crte == LegRotation(Head(legs).crew)
         IN IF crte = "" \/ crte \in seen THEN RotationCodes(Tail(legs), seen)
            ELSE <<crte>> \o RotationCodes(Tail(legs), seen \cup {crte})

\* new_rotation_details, sorted: lines 1750-1772
LiveRotationDetails(legs, flight_reg_map, new_operating_crew) ==
    LET codes == RotationCodes(legs, {})
        detail(crte) ==
            LET group == GroupLegs(legs, flight_reg_map, crte)
                regs == ChangingRegs(<<>>, group)
            IN [id |-> crte,
                crew_count |-> Len(group[1].crew_ids),
                role |-> LeadRole(group[1].crew_ids, new_operating_crew),
                regs |-> regs,
                flights |-> [i \in 1..Len(group) |-> group[i].flt],
                rotations |-> Len(regs) - 1]
        all == [i \in 1..Len(codes) |-> detail(codes[i])]
    IN SortRotations(SelectSeq(all, LAMBDA d : d.rotations >= 1))

\* What a successful fetch_leg_members_per_day writes: lines 1697-1777.
ApplyLegs(data, live_data, current_flights, target) ==
    LET crew == LiveCrew([seen |-> {},
                          counts |-> [r \in {"CP", "FO", "PU", "FA"} |-> 0],
                          list |-> <<>>],
                         LegMembers(live_data.legs))
        flight_reg_map == FlightRegMap(EmptyDict, current_flights, target)
        new_rotation_details ==
            LiveRotationDetails(live_data.legs, flight_reg_map, crew.list)
    IN [data EXCEPT
           !.summary.total_crew = live_data.total_crew_operating,
           !.data_source_crew = Some("AIMS Live"),
           !.operating_crew = IF crew.list # <<>> THEN crew.list ELSE @,
           !.crew_roles = IF crew.list # <<>> THEN crew.counts ELSE @,
           !.crew_rotations = Take(new_rotation_details, 100),
           !.summary.crew_rotation_count = Len(new_rotation_details)]

\* What a successful get_bulk_crew_status writes: lines 1683-1693.
ApplyStatus(data, status_res) ==
    [data EXCEPT
        !.crew_schedule.summary =
            [t \in {"SBY", "OSBY", "SL", "CSL", "FGT", "OFF"} |->
                Get(status_res.summary, t, 0)],
        !.crew_status_source =
            Some(<<status_res.sampled_crew, status_res.total_crew>>)]

\* DataProcessor._apply_live_crew_override. ext is what the roster source
\* does during the call: whether it is enabled and configured, today's
\* date, and for each of the two requests a result dict or an exception
\* (after the retries of retry_on_failure).
apply_live_crew_override(data, filter_date, current_flights, ext) ==
    LET target_date_str == IF filter_date # None THEN filter_date ELSE ext.today
        year == IF Len(target_date_str) = 3
                THEN (IF target_date_str[3] < 100 THEN target_date_str[3] + 2000
                      ELSE target_date_str[3])
                ELSE 0
        target == <<target_date_str[1], target_date_str[2], year>>
        data1 == IF ext.status.outcome = "result" /\ ext.status.success
                 THEN ApplyStatus(data, ext.status)
                 ELSE data
    IN IF ~ext.available THEN data
       ELSE IF Len(target_date_str) # 3 THEN data
       ELSE IF ~ValidDate(year, target_date_str[2], target_date_str[1]) THEN data
       ELSE IF ext.status.outcome = "raise" THEN data
       ELSE IF ext.legs.outcome = "raise" THEN data1
       ELSE IF ~ext.legs.success THEN data1
       ELSE ApplyLegs(data1, ext.legs, current_flights, target)

\* The ten AIMS maps of lines 147-151, None while the attributes do not
\* exist: __init__ creates aims_flights, aims_flights_by_date and
\* aims_available_dates only.
AimsMapsDefined(st) == st.aims_maps # None

\* The CSV-path fields the AIMS source replaces and restores: 1615-1627.
SwappedFields ==
    {"flights", "flights_by_date", "available_dates", "reg_flight_hours",
     "reg_flight_count", "crew_to_regs", "crew_to_regs_by_date",
     "reg_flight_hours_by_date", "reg_flight_count_by_date",
     "crew_group_rotations", "crew_group_rotations_by_date"}

\* The processor while the AIMS source is selected: lines 1630-1640.
SelectAims(st) ==
    [st EXCEPT
        !.flights = st.aims_flights,
        !.flights_by_date = st.aims_flights_by_date,
        !.available_dates = st.aims_available_dates,
        !.reg_flight_hours = st.aims_maps[1].reg_flight_hours,
        !.reg_flight_count = st.aims_maps[1].reg_flight_count,
        !.crew_to_regs = st.aims_maps[1].crew_to_regs,
        !.crew_to_regs_by_date = st.aims_maps[1].crew_to_regs_by_date,
        !.reg_flight_hours_by_date = st.aims_maps[1].reg_flight_hours_by_date,
        !.reg_flight_count_by_date = st.aims_maps[1].reg_flight_count_by_date,
        !.crew_group_rotations = st.aims_maps[1].crew_group_rotations,
        !.crew_group_rotations_by_date =
            st.aims_maps[1].crew_group_rotations_by_date]

\* The finally block of lines 1650-1653: the originals come back; the AIMS
\* dicts are the objects the computation read, with what it stored in them.
RestoreOriginals(originals, used) ==
    [used EXCEPT
        !.flights = originals.flights,
        !.flights_by_date = originals.flights_by_date,
        !.available_dates = originals.available_dates,
        !.reg_flight_hours = originals.reg_flight_hours,
        !.reg_flight_count = originals.reg_flight_count,
        !.crew_to_regs = originals.crew_to_regs,
        !.crew_to_regs_by_date = originals.crew_to_regs_by_date,
        !.reg_flight_hours_by_date = originals.reg_flight_hours_by_date,
        !.reg_flight_count_by_date = originals.reg_flight_count_by_date,
        !.crew_group_rotations = originals.crew_group_rotations,
        !.crew_group_rotations_by_date = originals.crew_group_rotations_by_date,
        !.aims_maps =
            Some([@[1] EXCEPT
                !.crew_to_regs_by_date = used.crew_to_regs_by_date,
                !.reg_flight_hours_by_date = used.reg_flight_hours_by_date,
                !.reg_flight_count_by_date = used.reg_flight_count_by_date,
                !.crew_group_rotations_by_date =
                    used.crew_group_rotations_by_date])]

\* Lines 1643-1653: r is what calculate_metrics gave on the AIMS fields.
AimsResult(st, r, filter_date, ext) ==
    IF r.raised
    THEN [st |-> RestoreOriginals(st, r.st), raised |-> TRUE, data |-> None]
    ELSE [st |-> RestoreOriginals(st, r.st), raised |-> FALSE,
          data |-> Some(apply_live_crew_override(
                       [r.data[1] EXCEPT !.is_aims_source = TRUE],
                       filter_date, st.aims_flights, ext))]

\* Lines 1655-1658: r is what calculate_metrics gave on the CSV fields.
CsvResult(r, filter_date, ext) ==
    IF r.raised THEN r
    ELSE [st |-> r.st, raised |-> FALSE,
          data |-> Some(apply_live_crew_override(
                       r.data[1], filter_date, r.st.flights, ext))]

\* DataProcessor.get_dashboard_data: the processor it leaves, and the
\* snapshot it returns or the exception it lets escape.
get_dashboard_data(st, filter_date, source, ext) ==
    IF source = "aims" /\ st.aims_flights # <<>>
    THEN IF ~AimsMapsDefined(st)
         THEN \* AttributeError at line 1633, after lines 1630-1632
              [st |-> [st EXCEPT !.flights = st.aims_flights,
                                 !.flights_by_date = st.aims_flights_by_date,
                                 !.available_dates = st.aims_available_dates],
               raised |-> TRUE, data |-> None]
         ELSE AimsResult(st, calculate_metrics(SelectAims(st), filter_date),
                         filter_date, ext)
    ELSE CsvResult(calculate_metrics(st, filter_date), filter_date, ext)

\* DataProcessor.calculate_rolling_28day_stats
calculate_rolling_28day_stats(st) ==
    LET count(s) == Cardinality({i \in 1..Len(st.rolling_hours) :
                                     st.rolling_hours[i].status = s})
        total_crew == Len(st.rolling_hours)
        normal_count == total_crew - count("critical") - count("warning")
    IN [total_crew |-> total_crew,
        normal_count |-> normal_count,
        warning_count |-> count("warning"),
        critical_count |-> count("critical"),
        compliance_rate |->
            IF total_crew = 0 THEN Rate(1000, 10)
            ELSE Rate(RoundDiv(normal_count * 1000, total_crew), 10)]

\* Lines 118-120 of api_server.py: the compliance rate of the 28-day
\* statistics replaces the one of the snapshot.
WithComplianceStats(r) ==
    IF r.raised THEN r
    ELSE [r EXCEPT !.data =
             Some([r.data[1] EXCEPT
                 !.compliance_rate =
                     calculate_rolling_28day_stats(r.st).compliance_rate])]

\* The index route of api_server.py, lines 107-141.
index(st, filter_date, ext) ==
    WithComplianceStats(get_dashboard_data(st, filter_date, "csv", ext))

\* The date of a stored flight as flight.get('date') reads it.
FlightDate(flight) ==
    IF flight.shape \in {"dayrep", "aims_mapped"} THEN Some(flight.date)
    ELSE None

\* One flight of the rebuild loops: lines 79-113 of load_from_supabase and
\* lines 1798-1830 of _calculate_kpi_maps. st holds the maps being built.
IndexFlight(st, flight) ==
    IF FlightDate(flight) = None THEN st
    ELSE
    LET op_date == flight.date
        reg == flight.reg
        st1 == [st EXCEPT
            !.flights_by_date =
                Put(@, op_date, Append(Get(@, op_date, <<>>), flight))]
        minutes == FlightMinutes(flight.std, flight.sta)
        hours_by_date == Get(st.reg_flight_hours_by_date, op_date, EmptyDict)
        count_by_date == Get(st.reg_flight_count_by_date, op_date, EmptyDict)
        st2 == IF reg = "" \/ minutes = None THEN st1
               ELSE [st1 EXCEPT
            !.reg_flight_hours = Put(@, reg, Get(@, reg, 0) + minutes[1]),
            !.reg_flight_count = Put(@, reg, Get(@, reg, 0) + 1),
            !.reg_flight_hours_by_date =
                Put(@, op_date,
                    Put(hours_by_date, reg,
                        Get(hours_by_date, reg, 0) + minutes[1])),
            !.reg_flight_count_by_date =
                Put(@, op_date,
                    Put(count_by_date, reg, Get(count_by_date, reg, 0) + 1))]
        crew_list == extract_crew_ids(CrewOf(flight))
        st3 == AddCrew(st2, crew_list, op_date, reg)
        crew_set_key == get_crew_set_key(CrewOf(flight))
        rot_by_date == Get(st.crew_group_rotations_by_date, op_date, EmptyDict)
    IN IF crew_list = <<>> THEN st3
       ELSE [st3 EXCEPT
            !.crew_group_rotations =
                Put(@, crew_set_key, Append(Get(@, crew_set_key, <<>>), reg)),
            !.crew_group_rotations_by_date =
                Put(@, op_date,
                    Put(rot_by_date, crew_set_key,
                        Append(Get(rot_by_date, crew_set_key, <<>>), reg)))]

RECURSIVE IndexFlights(_, _)
IndexFlights(st, flights) ==
    IF flights = <<>> THEN st
    ELSE IndexFlights(IndexFlight(st, Head(flights)), Tail(flights))

\* The fresh maps of lines 68-77 and 1787-1796; crew_roles is not among them.
FreshMaps(st) == [DayrepReset(st) EXCEPT !.crew_roles = st.crew_roles]

\* available_dates of lines 115 and 1832
WithAvailableDates(st) ==
    [st EXCEPT !.available_dates = SortDates(DOMAIN st.flights_by_date)]

\* DataProcessor._calculate_kpi_maps: the maps are the fields of the
\* record returned, crew_roles the processor's own after the call.
calculate_kpi_maps(st, flights) ==
    WithAvailableDates(IndexFlights(FreshMaps(st), flights))

\* A row of the fact table once lines 136-140 (first pass) or 236-240
\* (second pass) have added the internal keys; a row without flight_date
\* gets none of them.
MappedFact(row, norm_date) ==
    IF row.flight_date = None
    THEN [shape |-> "aims_raw", flight_date |-> None, date_sep |-> "",
          ac_reg |-> row.ac_reg, flight_no |-> row.flight_no,
          std |-> row.std, sta |-> row.sta]
    ELSE [shape |-> "aims_mapped", flight_date |-> row.flight_date,
          date_sep |-> row.date_sep,
          ac_reg |-> row.ac_reg, flight_no |-> row.flight_no,
          std |-> row.std, sta |-> row.sta,
          date |-> norm_date, reg |-> row.ac_reg, flt |-> row.flight_no]

\* norm_date of lines 126-134: "YYYY-MM-DD" is turned round by hand, any
\* other text goes through normalize_date with its dashes as slashes.
FirstPassDate(row) ==
    IF row.date_sep = "-"
    THEN <<row.flight_date[3], row.flight_date[2], row.flight_date[1] % 100>>
    ELSE normalize_date(row.flight_date)

\* norm_date of line 235: normalize_date alone, which reads the first
\* field as the day and keeps two digits of the last.
SecondPassDate(row) == normalize_date(row.flight_date)

\* the rows of the fact table as one pass leaves them
FirstPassFlights(rows) ==
    [i \in 1..Len(rows) |->
        MappedFact(rows[i], IF rows[i].flight_date = None THEN None
                            ELSE FirstPassDate(rows[i]))]

SecondPassFlights(rows) ==
    [i \in 1..Len(rows) |->
        MappedFact(rows[i], IF rows[i].flight_date = None THEN None
                            ELSE SecondPassDate(rows[i]))]

\* Lines 143-149: the AIMS attributes take what _calculate_kpi_maps gave.
WithAimsMaps(st, aims_flights, maps) ==
    [st EXCEPT
        !.aims_flights = aims_flights,
        !.aims_flights_by_date = maps.flights_by_date,
        !.aims_available_dates = maps.available_dates,
        !.crew_roles = maps.crew_roles,
        !.aims_maps =
            Some([reg_flight_hours |-> maps.reg_flight_hours,
                  reg_flight_count |-> maps.reg_flight_count,
                  crew_to_regs |-> maps.crew_to_regs,
                  crew_to_regs_by_date |-> maps.crew_to_regs_by_date,
                  reg_flight_hours_by_date |-> maps.reg_flight_hours_by_date,
                  reg_flight_count_by_date |-> maps.reg_flight_count_by_date,
                  crew_group_rotations |-> maps.crew_group_rotations,
                  crew_group_rotations_by_date |->
                      maps.crew_group_rotations_by_date])]

FirstFactPassOn(st, aims_flights) ==
    WithAimsMaps(st, aims_flights, calculate_kpi_maps(st, aims_flights))

\* Lines 122-151: the first reading of the fact table.
FirstFactPass(st, rows) ==
    IF rows = <<>> THEN st ELSE FirstFactPassOn(st, FirstPassFlights(rows))

\* aims_flights_by_date of lines 222-242
RECURSIVE GroupByDate(_, _)
GroupByDate(groups, flights) ==
    IF flights = <<>> THEN groups
    ELSE LET f == Head(flights)
         IN GroupByDate(IF f.shape = "aims_mapped"
                        THEN Put(groups, f.date,
                                 Append(Get(groups, f.date, <<>>), f))
                        ELSE groups,
                        Tail(flights))

SecondFactPassOn(st, aims_flights, groups) ==
    [st EXCEPT
        !.aims_flights = aims_flights,
        !.aims_flights_by_date = groups,
        !.aims_available_dates = SortDates(DOMAIN groups)]

\* Lines 219-244: the second reading of the fact table.
SecondFactPass(st, rows) ==
    IF rows = <<>> THEN st
    ELSE SecondFactPassOn(st, SecondPassFlights(rows),
                          GroupByDate(EmptyDict, SecondPassFlights(rows)))

\* The flights of the store taken over without the rebuild of lines 68-115.
StoredFlightsKeepMaps(st, db_flights) ==
    IF db_flights = <<>> THEN st ELSE [st EXCEPT !.flights = db_flights]

\* Lines 65-116: the flights of the store replace those in memory.
StoredFlights(st, db_flights) ==
    IF db_flights = <<>> THEN st
    ELSE WithAvailableDates(
             IndexFlights([FreshMaps(st) EXCEPT !.flights = db_flights],
                          db_flights))

\* DataProcessor.load_from_supabase on a store that holds flights and
\* facts only (its other tables are empty, so lines 157-207 keep what is
\* in memory and line 216 parses the local crew schedule file, here
\* absent). supabase_client.py defines no get_fact_actuals: the call of
\* line 122 raises AttributeError ("missing"). The other outcome, "rows",
\* is the function as its sibling getters are written: the rows of the
\* table, the same at both calls.
load_from_supabase(st, store) ==
    IF store.fact_actuals.outcome = "missing"
    THEN [st |-> StoredFlights(st, store.flights), raised |-> TRUE]
    ELSE [st |-> SecondFactPass(
                     process_crew_schedule_csv(
                         FirstFactPass(StoredFlights(st, store.flights),
                                       store.fact_actuals.rows),
                         [kind |-> "absent"]),
                     store.fact_actuals.rows),
          raised |-> FALSE]

\* The loop of lines 1931-1943 of load_from_aims: every flight joins
\* flights, and flights_by_date under its flight_date.
RECURSIVE AppendAimsFlights(_, _)
AppendAimsFlights(st, flights) ==
    IF flights = <<>> THEN st
    ELSE LET flight == Head(flights)
             st1 == [st EXCEPT !.flights = Append(@, flight)]
         IN AppendAimsFlights(
                IF flight.flight_date = None THEN st1
                ELSE [st1 EXCEPT
                         !.flights_by_date =
                             Put(@, flight.flight_date,
                                 Append(Get(@, flight.flight_date, <<>>),
                                        flight))],
                Tail(flights))

\* DataProcessor.load_from_aims. aims is what the AIMS client does: whether
\* it is available, and the result of get_flight_details or its exception,
\* which line 1961 swallows.
load_from_aims(st, aims) ==
    IF ~aims.available THEN st
    ELSE IF aims.flight_result.outcome = "raise" THEN st
    ELSE IF ~aims.flight_result.success THEN st
    ELSE AppendAimsFlights(st, aims.flight_result.flights)

\* get_processor of data_processor.py with no store connected: the
\* singleton is built and the four default reports are parsed.
get_processor(files) ==
    process_crew_schedule_csv(
        process_rolcrtot_csv(
            process_sacutil_csv(
                process_dayrep_csv(DataProcessorInit, files.dayrep),
                files.sacutil),
            files.rolcrtot),
        files.crew_schedule)

\* AIMSSoapClient.calculate_rolling_28day_hours, after the roster call:
\* roster is None when get_crew_roster fails, else Some(total_minutes).
\* block_hours is round(total_minutes / 60, 2) in hundredths.
calculate_rolling_28day_hours(roster) ==
    IF roster = None
    THEN [block_hours |-> 0, block_minutes |-> 0, alert_status |-> "error"]
    ELSE LET total_minutes == roster[1]
         IN [block_hours |-> RoundDiv(total_minutes * 100, 60),
             block_minutes |-> total_minutes,
             alert_status |->
                 IF total_minutes > 95 * 60 THEN "critical"
                 ELSE IF total_minutes > 85 * 60 THEN "warning"
                 ELSE "normal"]

(***************************************************************************)
(* Pure functions, applied to every input of a bounded set                 *)
(***************************************************************************)

\* Two-digit years the calendar dates are drawn from: a century year that is
\* leap (2000), leap and common years, and the last year of the century.
SampleYears == {0, 23, 24, 25, 26, 99}

CalendarDates == {<<d, m, y>> : d \in 1..31, m \in 1..12, y \in SampleYears}

SampleTimes ==
    {Colon(0, 0), Colon(0, 30), Colon(3, 59), Colon(4, 0), Colon(12, 0),
     Colon(23, 59), Digits(3, 30), EmptyTime, GarbageTime}

\* 28-day hours around the two thresholds, in hundredths.
SampleHours == 8400..9600

\* departure and arrival times: the times above, and two pairs around
\* midnight and within a day
SampleBlockTimes ==
    SampleTimes \cup {Colon(23, 50), Colon(0, 10), Colon(10, 0), Colon(11, 30)}

PureCalls ==
    [fn : {"get_operating_date"}, date : CalendarDates, time : SampleTimes]
    \cup [fn : {"get_alert_status"}, hours : SampleHours]
    \cup [fn : {"block_minutes"}, departure : SampleBlockTimes,
                                  arrival : SampleBlockTimes]

\* the file-watcher thread at rest
Idle == [pc |-> "idle", rows |-> <<>>]

\* no operation yet
NoOp == [op |-> "init", input |-> None, before |-> None]

InitPure ==
    /\ processor = DataProcessorInit
    /\ served = None
    /\ raised = FALSE
    /\ last = NoOp
    /\ watcher = Idle
    /\ call \in PureCalls
    /\ result = None

CallGetOperatingDate ==
    /\ call.fn = "get_operating_date"
    /\ result = None
    /\ result' = Some([core |-> get_operating_date(call.date, call.time),
                       utils |-> utils_get_operating_date(call.date,
                                                          call.time)])
    /\ UNCHANGED <<processor, served, raised, last, watcher, call>>

CallGetAlertStatus ==
    /\ call.fn = "get_alert_status"
    /\ result = None
    /\ result' = Some([core |-> get_alert_status(call.hours),
                       model |-> from_hours(call.hours)])
    /\ UNCHANGED <<processor, served, raised, last, watcher, call>>

CallBlockMinutes ==
    /\ call.fn = "block_minutes"
    /\ result = None
    /\ result' = Some([aims |-> aims_calculate_block_minutes(call.departure,
                                                             call.arrival),
                       flight |-> calculate_block_minutes(call.departure,
                                                          call.arrival),
                       dayrep |-> FlightMinutes(call.departure,
                                                call.arrival)])
    /\ UNCHANGED <<processor, served, raised, last, watcher, call>>

NextPure ==
    \/ CallGetOperatingDate
    \/ CallGetAlertStatus
    \/ CallBlockMinutes

SpecPure == InitPure /\ [][NextPure]_vars

\* Days from 01/01/0001 to the date, counted without the calendar operators
\* of the model: whole years, the leap days among them, whole months.
OrdinalOf(year, month, day) ==
    LET y == year - 1
        before == <<0, 31, 59, 90, 120, 151, 181, 212, 243, 273, 304, 334>>
        leap_day == IF month > 2
                       /\ ((year % 4 = 0 /\ year % 100 # 0) \/ year % 400 = 0)
                    THEN 1 ELSE 0
    IN 365 * y + (y \div 4) - (y \div 100) + (y \div 400)
       + before[month] + leap_day + day

\* got is the day before the date, whose year is full_year: a date of the
\* calendar, one day earlier, printed with the last two digits of its year.
IsPreviousDay(got, date, full_year) ==
    /\ got[1] \in 1..31
    /\ got[2] \in 1..12
    /\ \E y \in {full_year - 1, full_year} :
           /\ y % 100 = got[3]
           /\ OrdinalOf(y, got[2], got[1]) + 1
                  = OrdinalOf(full_year, date[2], date[1])
           /\ OrdinalOf(y, got[2], got[1]) >= OrdinalOf(y, got[2], 1)
           /\ got[2] = 12 \/ OrdinalOf(y, got[2], got[1])
                                < OrdinalOf(y, got[2] + 1, 1)

\* C7: for a valid calendar date and a departure time HH:MM, the operating
\* date is the calendar date when the time is 04:00 or later and the
\* previous calendar day when it is earlier, across month, year and leap
\* boundaries; with an empty or unreadable time it is the calendar date as
\* given. Both implementations (the processor's and date_utils') agree.
C7_OperatingDate ==
    (/\ call # None
     /\ call.fn = "get_operating_date"
     /\ result # None
     /\ ValidDate(2000 + call.date[3], call.date[2], call.date[1]))
    => LET core == result[1].core
           utils == result[1].utils
           t == call.time
           century == IF call.date[3] < 69 THEN 2000 ELSE 1900
       IN /\ (t.kind = "colon" /\ t.h * 60 + t.m >= 240)
                => core = call.date /\ utils = call.date
          /\ (t.kind = "colon" /\ t.h * 60 + t.m < 240)
                => /\ IsPreviousDay(core, call.date, 2000 + call.date[3])
                   /\ IsPreviousDay(utils, call.date, century + call.date[3])
                   /\ core = utils
          /\ t.kind \in {"empty", "garbage"}
                => core = call.date /\ utils = call.date
          /\ t.kind = "digits" => core = call.date

\* C7 happens: 03:59 on 1 March of a leap year gives 29 February.
C7_Witness ==
    /\ call # None
    /\ call.fn = "get_operating_date"
    /\ call.date = <<1, 3, 24>>
    /\ call.time = Colon(3, 59)
    /\ result # None
    /\ result[1].core = <<29, 2, 24>>

\* C8: the tier is critical exactly above 95 hours, warning exactly above 85
\* and up to 95, normal exactly up to 85; so 85.00 is normal, 85.01 warning,
\* 95.00 warning and 95.01 critical. The processor's function and the alert
\* matrix of the crew model agree.
C8_AlertTiers ==
    (call # None /\ call.fn = "get_alert_status" /\ result # None)
    => LET h == call.hours
           tier == result[1].core
       IN /\ tier = "critical" <=> h > 9500
          /\ tier = "warning" <=> (h > 8500 /\ h <= 9500)
          /\ tier = "normal" <=> h <= 8500
          /\ h = 8500 => tier = "normal"
          /\ h = 8501 => tier = "warning"
          /\ h = 9500 => tier = "warning"
          /\ h = 9501 => tier = "critical"
          /\ result[1].model = tier

\* C8 happens: exactly 95 hours were classified, as warning.
C8_Witness ==
    /\ call # None
    /\ call.fn = "get_alert_status"
    /\ call.hours = 9500
    /\ result # None
    /\ result[1].core = "warning"

\* C11: the block minutes of a departure and an arrival "HH:MM" are the
\* arrival minutes less the departure minutes, a day added when negative, so
\* within 0..1439; with an empty or unreadable time the result is 0, never
\* None. This holds of the roster client's function, of the flight model's
\* and of the duration the flight report parser adds.
C11_BlockMinutes ==
    (call # None /\ call.fn = "block_minutes" /\ result # None)
    => LET dep == call.departure
           arr == call.arrival
           valid == dep.kind = "colon" /\ arr.kind = "colon"
           diff == (arr.h * 60 + arr.m) - (dep.h * 60 + dep.m)
           expected == IF valid
                       THEN (IF diff < 0 THEN diff + 1440 ELSE diff)
                       ELSE 0
       IN /\ expected \in 0..1439
          /\ result[1].aims = expected
          /\ result[1].flight = Some(expected)
          /\ valid => result[1].dayrep = Some(expected)

(***************************************************************************)
(* The reports and requests the server is given                            *)
(***************************************************************************)

\* the duplicate-free sequences of at most n elements of S
RECURSIVE SeqsUpTo(_, _)
SeqsUpTo(S, n) ==
    IF n = 0 THEN {<<>>}
    ELSE LET shorter == SeqsUpTo(S, n - 1)
         IN shorter \cup {Append(q, x) : q \in shorter, x \in S}

DistinctSeqs(S, n) ==
    {q \in SeqsUpTo(S, n) : \A i, j \in 1..Len(q) : i # j => q[i] # q[j]}

Member(name, role, id) == [name |-> name, role |-> role, id |-> id]

\* Rows of a flight report: two flights of one crew pair on two aircraft, a
\* night departure without crew and without a readable arrival time, a
\* flight over midnight, and a row without registration.
FlightRow(date, reg, flt, std, sta, crew) ==
    [date |-> date, reg |-> reg, flt |-> flt, std |-> std, sta |-> sta,
     crew |-> crew]

SampleFlightRows ==
    {FlightRow(Some(<<15, 1, 26>>), "VN-A320", "VJ101", Colon(8, 0), Colon(10, 0),
               <<Member("AN", "CP", 111), Member("BINH", "FO", 222)>>),
     FlightRow(Some(<<15, 1, 26>>), "VN-A321", "VJ102", Colon(12, 0),
               Colon(13, 30),
               <<Member("BINH", "FO", 222), Member("AN", "CP", 111)>>),
     FlightRow(Some(<<17, 1, 26>>), "A6-XYZ", "101", Colon(0, 30), GarbageTime,
               <<>>),
     FlightRow(Some(<<16, 1, 26>>), "VN-A320", "VJ101", Colon(23, 0),
               Colon(1, 0), <<Member("AN", "FA", 111)>>),
     FlightRow(Some(<<15, 1, 26>>), "", "VJ102", Colon(9, 0), Colon(10, 0),
               <<>>)}

MaxFlightRows == 2

DayrepInputs ==
    {[kind |-> "absent"]}
    \cup [kind : {"rows"}, rows : DistinctSeqs(SampleFlightRows, MaxFlightRows)]

UtilRow(date, ac_type, dom_block, int_block) ==
    [date |-> date, ac_type |-> ac_type,
     dom_block |-> dom_block, int_block |-> int_block,
     total_block |-> min_to_time(parse_time_to_min(dom_block)
                                 + parse_time_to_min(int_block)),
     dom_cycles |-> 4, int_cycles |-> 1, total_cycles |-> 5,
     avg_util |-> "08:30"]

SampleUtilRows ==
    {UtilRow(Some(<<15, 1>>), "A320", Colon(10, 0), Colon(2, 30)),
     UtilRow(Some(<<16, 1>>), "321", Colon(7, 45), Colon(0, 0)),
     UtilRow(None, "Date", EmptyTime, EmptyTime)}

MaxUtilRows == 2

SacutilInputs ==
    {[kind |-> "absent"]}
    \cup [kind : {"rows"}, rows : DistinctSeqs(SampleUtilRows, MaxUtilRows),
          year : {2026}]

\* the dates a request may filter by: none, days with and without flights,
\* and text that is no date
SampleFilters == {None, <<15, 1, 26>>, <<16, 1, 26>>, <<18, 1, 26>>, <<0, 0, 0>>}

\* the roster source of a deployment without AIMS
NoAims ==
    [available |-> FALSE, today |-> <<15, 1, 26>>,
     status |-> [outcome |-> "raise"], legs |-> [outcome |-> "raise"]]

(***************************************************************************)
(* The server without store and without AIMS: flight and utilization       *)
(* reports arrive, requests are served                                     *)
(***************************************************************************)

Init ==
    /\ processor = DataProcessorInit
    /\ served = None
    /\ raised = FALSE
    /\ last = NoOp
    /\ watcher = Idle
    /\ call = None
    /\ result = None

ProcessDayrep ==
    \E input \in DayrepInputs :
        /\ processor' = process_dayrep_csv(processor, input)
        /\ served' = None
        /\ raised' = FALSE
        /\ last' = [op |-> "process_dayrep_csv", input |-> input, before |-> None]
        /\ UNCHANGED <<watcher, call, result>>

ProcessSacutil ==
    \E input \in SacutilInputs :
        /\ processor' = process_sacutil_csv(processor, input)
        /\ served' = None
        /\ raised' = FALSE
        /\ last' = [op |-> "process_sacutil_csv", input |-> input,
                    before |-> None]
        /\ UNCHANGED <<watcher, call, result>>

\* GET / of api_server.py
Index ==
    \E filter_date \in SampleFilters :
        \E r \in {index(processor, filter_date, NoAims)} :
            /\ processor' = r.st
            /\ served' = r.data
            /\ raised' = r.raised
            /\ last' = [op |-> "index",
                        input |-> [filter_date |-> filter_date,
                                   source |-> "csv"],
                        before |-> Some(processor)]
            /\ UNCHANGED <<watcher, call, result>>

Next ==
    \/ ProcessDayrep
    \/ ProcessSacutil
    \/ Index

Spec == Init /\ [][Next]_vars

(***************************************************************************)
(* The server with its crew reports: rolling hours and crew schedule       *)
(* reports arrive over the flights loaded at start-up, requests are served *)
(***************************************************************************)

RollingRow(id, name, b28) == [id |-> id, name |-> name, b28 |-> b28]

\* Rows of a rolling-hours report: one crew member in each tier, one on each
\* threshold, and a line that is no crew row.
SampleRollingRows ==
    {RollingRow(Some(111), "AN", Colon(84, 0)),
     RollingRow(Some(222), "BINH", Colon(85, 0)),
     RollingRow(Some(333), "CUC", Colon(95, 0)),
     RollingRow(Some(444), "DUNG", Colon(96, 0)),
     RollingRow(None, "Total", Colon(360, 0))}

MaxRollingRows == 3

RolcrtotInputs ==
    {[kind |-> "absent"]}
    \cup [kind : {"rows"},
          rows : DistinctSeqs(SampleRollingRows, MaxRollingRows)]

DutyRow(crew_id, name, cells, sl, csl, sby, osby) ==
    [crew_id |-> crew_id, name |-> name, cells |-> cells,
     sl |-> sl, csl |-> csl, sby |-> sby, osby |-> osby]

\* Rows of a crew schedule report; a row carries its day cells (matrix
\* layout) and its counts (standard layout).
SampleDutyRows ==
    {DutyRow(Some(111), "AN", << <<"S", "B", "Y">>, <<"S", "L">> >>, 1, 0, 2, 0),
     DutyRow(Some(222), "BINH", << <<"O", "S", "B", "Y">>, <<>> >>, 0, 1, 0, 1)}

MaxDutyRows == 2

CrewScheduleInputs ==
    {[kind |-> "absent"], [kind |-> "empty"]}
    \cup [kind : {"content"}, layout : {"matrix", "standard"},
          rows : DistinctSeqs(SampleDutyRows, MaxDutyRows),
          day_cols : {<<15, 16>>}, month : {1}, year : {2026},
          now_year : {2026}]

\* the default reports found at start-up: a flight report only, its
\* second flight without crew
StartupFiles ==
    [dayrep |->
        [kind |-> "rows",
         rows |-> <<FlightRow(Some(<<15, 1, 26>>), "VN-A320", "VJ101",
                              Colon(8, 0), Colon(10, 0),
                              <<Member("AN", "CP", 111),
                                Member("BINH", "FO", 222)>>),
                    FlightRow(Some(<<16, 1, 26>>), "VN-A321", "VJ102",
                              Colon(12, 0), Colon(13, 30),
                              <<>>)>>],
     sacutil |-> [kind |-> "absent"],
     rolcrtot |-> [kind |-> "absent"],
     crew_schedule |-> [kind |-> "absent"]]

InitCrew ==
    /\ processor = get_processor(StartupFiles)
    /\ served = None
    /\ raised = FALSE
    /\ last = NoOp
    /\ watcher = Idle
    /\ call = None
    /\ result = None

ProcessRolcrtot ==
    \E input \in RolcrtotInputs :
        /\ processor' = process_rolcrtot_csv(processor, input)
        /\ served' = None
        /\ raised' = FALSE
        /\ last' = [op |-> "process_rolcrtot_csv", input |-> input,
                    before |-> None]
        /\ UNCHANGED <<watcher, call, result>>

ProcessCrewSchedule ==
    \E input \in CrewScheduleInputs :
        /\ processor' = process_crew_schedule_csv(processor, input)
        /\ served' = None
        /\ raised' = FALSE
        /\ last' = [op |-> "process_crew_schedule_csv", input |-> input,
                    before |-> None]
        /\ UNCHANGED <<watcher, call, result>>

NextCrew ==
    \/ ProcessRolcrtot
    \/ ProcessCrewSchedule
    \/ Index

SpecCrew == InitCrew /\ [][NextCrew]_vars

\* what a parse of the crew schedule report fills
CrewScheduleCollections(st) ==
    <<st.crew_schedule, st.crew_schedule_by_date, st.standby_records>>

\* C1: a re-parse of a report replaces everything the previous parse of
\* that report left, also when it yields no record: after a parse the
\* collections and rollups of that report are those the same input gives on
\* a processor that never parsed anything.
C1_ReparseReplaces ==
    /\ last.op = "process_rolcrtot_csv"
          => processor.rolling_hours
                 = process_rolcrtot_csv(DataProcessorInit,
                                        last.input).rolling_hours
    /\ last.op = "process_crew_schedule_csv"
          => CrewScheduleCollections(processor)
                 = CrewScheduleCollections(
                       process_crew_schedule_csv(DataProcessorInit,
                                                 last.input))

\* total minutes of a 28-day roster, around both thresholds
SampleRosterMinutes ==
    {0, 85 * 60 - 1, 85 * 60, 85 * 60 + 1, 95 * 60 - 1, 95 * 60, 95 * 60 + 1}

\* C9: every stored rolling-hours record, and every result of the live
\* roster path, carries the status get_alert_status gives for its hours,
\* also for exactly 85 and exactly 95 hours.
C9_UniformTier ==
    /\ \A i \in 1..Len(processor.rolling_hours) :
           processor.rolling_hours[i].status
               = get_alert_status(processor.rolling_hours[i].hours_28day)
    /\ \A total_minutes \in SampleRosterMinutes :
           LET live == calculate_rolling_28day_hours(Some(total_minutes))
           IN live.alert_status = get_alert_status(live.block_hours)

\* C10: with rolling hours loaded, the compliance rate delivered with the
\* snapshot is (normal + warning) / total x 100, to one decimal, and
\* rolling_stats reports the three tier counts.
C10_ComplianceRate ==
    (last.op = "index" /\ served # None /\ processor.rolling_hours # <<>>)
    => LET tiers == RollingStats(processor.rolling_hours)
           rate == served[1].compliance_rate
       IN /\ served[1].rolling_stats = tiers
          /\ RoundDiv(rate.num * 10, rate.den)
                 = RoundDiv((tiers["normal"] + tiers["warning"]) * 1000,
                            Len(processor.rolling_hours))

\* C6: computing a snapshot, with or without a date filter, changes none of
\* the processor's canonical collections, indices or duty summary: after a
\* request the processor is what it was before the request.
C6_SnapshotChangesNothing ==
    last.op = "index" => processor = last.before[1]

(***************************************************************************)
(* The server with a store and the AIMS roster source: the store and AIMS  *)
(* are loaded over the flights parsed at start-up, snapshots are requested *)
(* from either source while the roster source answers, fails or raises     *)
(***************************************************************************)

\* the flights table of the store: empty, or the flights of a parsed report
SampleStoredFlights ==
    {<<>>,
     process_dayrep_csv(DataProcessorInit, StartupFiles.dayrep).flights}

FactRow(flight_date, date_sep, ac_reg, flight_no, std, sta) ==
    [flight_date |-> flight_date, date_sep |-> date_sep, ac_reg |-> ac_reg,
     flight_no |-> flight_no, std |-> std, sta |-> sta]

\* Rows of the fact table: a date as "2026-01-15" and one as "16/01/2026".
\* The fields of a date are in printed order.
SampleFactRows ==
    {FactRow(<<2026, 1, 15>>, "-", "VN-A320", "VJ101", Colon(8, 0),
             Colon(10, 0)),
     FactRow(<<16, 1, 2026>>, "/", "VN-A321", "102", Colon(12, 0),
             Colon(13, 30))}

MaxFactRows == 2

StoreContents ==
    [flights : SampleStoredFlights,
     fact_actuals :
        {[outcome |-> "missing"]}
        \cup [outcome : {"rows"},
              rows : DistinctSeqs(SampleFactRows, MaxFactRows)]]

\* a flight dict of AIMSSoapClient.get_flight_details: lines 370-391
AimsFlight(flight_date, ac_reg, flight_no, std, sta) ==
    [shape |-> "aims_raw", flight_date |-> flight_date, date_sep |-> "/",
     ac_reg |-> ac_reg, flight_no |-> flight_no, std |-> std, sta |-> sta]

SampleAimsFlights ==
    {AimsFlight(<<15, 1, 26>>, "VN-A320", "VJ101", Colon(8, 0), Colon(10, 0)),
     AimsFlight(<<16, 1, 2026>>, "VN-A321", "VJ102", Colon(12, 0),
                Colon(13, 30))}

MaxAimsFlights == 1

\* flights in memory beyond which no further AIMS load is followed
MaxLoadedFlights == 3

AimsLoads ==
    {[available |-> FALSE, flight_result |-> [outcome |-> "raise"]],
     [available |-> TRUE, flight_result |-> [outcome |-> "raise"]],
     [available |-> TRUE,
      flight_result |-> [outcome |-> "result", success |-> FALSE,
                         flights |-> <<>>]]}
    \cup [available : {TRUE},
          flight_result :
              [outcome : {"result"}, success : {TRUE},
               flights : DistinctSeqs(SampleAimsFlights, MaxAimsFlights)]]

LiveMember(id, name, role, rotation) ==
    [id |-> id, name |-> name, role |-> role, rotation |-> rotation]

\* the legs of a day as fetch_leg_members_per_day returns them: one crew
\* pair flying two legs of one rotation
SampleLegs ==
    <<[flight_no |-> "VJ101",
       crew |-> <<LiveMember(111, "AN", "CP", "R1"),
                  LiveMember(222, "BINH", "FO", "R1")>>],
      [flight_no |-> "102",
       crew |-> <<LiveMember(222, "BINH", "FO", "R1"),
                  LiveMember(111, "AN", "CP", "R1")>>]>>

StatusOk ==
    [outcome |-> "result", success |-> TRUE,
     summary |-> [t \in {"SBY", "SL", "CSL", "OFF", "FGT", "OTHER"} |->
                     CASE t = "SBY" -> 3
                       [] t = "SL" -> 1
                       [] t = "OFF" -> 5
                       [] t = "OTHER" -> 2
                       [] OTHER -> 0],
     sampled_crew |-> 11, total_crew |-> 11]

StatusFailed ==
    [outcome |-> "result", success |-> FALSE, summary |-> EmptyDict,
     sampled_crew |-> 0, total_crew |-> 0]

LegsOk ==
    [outcome |-> "result", success |-> TRUE, total_crew_operating |-> 2,
     legs |-> SampleLegs]

LegsFailed ==
    [outcome |-> "result", success |-> FALSE, total_crew_operating |-> 0,
     legs |-> <<>>]

Raises == [outcome |-> "raise"]

\* What the roster source does during one request.
RosterBehaviours ==
    {NoAims}
    \cup [available : {TRUE}, today : {<<15, 1, 26>>},
          status : {StatusOk, StatusFailed, Raises},
          legs : {LegsOk, LegsFailed, Raises}]

\* the dates a request of this deployment filters by
LiveFilters == {None, <<15, 1, 26>>, <<16, 1, 26>>}

InitLive ==
    /\ processor = get_processor(StartupFiles)
    /\ served = None
    /\ raised = FALSE
    /\ last = NoOp
    /\ watcher = Idle
    /\ call = None
    /\ result = None

LoadFromSupabase ==
    \E store \in StoreContents :
        \E r \in {load_from_supabase(processor, store)} :
            /\ Len(r.st.flights) <= MaxLoadedFlights
            /\ processor' = r.st
            /\ served' = None
            /\ raised' = r.raised
            /\ last' = [op |-> "load_from_supabase", input |-> store,
                        before |-> None]
            /\ UNCHANGED <<watcher, call, result>>

LoadFromAims ==
    \E aims \in AimsLoads :
        \E st \in {load_from_aims(processor, aims)} :
            /\ Len(st.flights) <= MaxLoadedFlights
            /\ processor' = st
            /\ served' = None
            /\ raised' = FALSE
            /\ last' = [op |-> "load_from_aims", input |-> aims,
                        before |-> None]
            /\ UNCHANGED <<watcher, call, result>>

GetDashboardData ==
    \E filter_date \in LiveFilters, source \in {"csv", "aims"},
       ext \in RosterBehaviours :
        \E r \in {get_dashboard_data(processor, filter_date, source, ext)} :
            /\ processor' = r.st
            /\ served' = r.data
            /\ raised' = r.raised
            /\ last' = [op |-> "get_dashboard_data",
                        input |-> [filter_date |-> filter_date,
                                   source |-> source, ext |-> ext],
                        before |-> Some(processor)]
            /\ UNCHANGED <<watcher, call, result>>

NextLive ==
    \/ LoadFromSupabase
    \/ LoadFromAims
    \/ GetDashboardData

SpecLive == InitLive /\ [][NextLive]_vars

\* a call of the roster source fails: it raises or returns no success
RosterFailure(ext) ==
    /\ ext.available
    /\ \/ ext.status.outcome = "raise"
       \/ ~ext.status.success
       \/ ext.legs.outcome = "raise"
       \/ ~ext.legs.success

\* C3: when a call of the roster source made by the live overlay returns a
\* failure or raises, the snapshot returned is the snapshot the overlay was
\* given, which is the one the same request returns without roster source:
\* no field holds live data and no source flag is set.
C3_OverlayAllOrNothing ==
    (/\ last.op = "get_dashboard_data"
     /\ ~raised
     /\ RosterFailure(last.input.ext))
    => served = get_dashboard_data(last.before[1], last.input.filter_date,
                                   last.input.source, NoAims).data

\* the fields of a complete snapshot
SnapshotFields ==
    {"summary", "available_dates", "current_filter_date", "compliance_rate",
     "crew_roles", "operating_crew", "aircraft", "crew_rotations",
     "utilization", "rolling_hours", "rolling_stats", "crew_schedule",
     "standby_records", "is_aims_source"}

\* C4: whatever the processor holds after parses, store loads and AIMS
\* loads, whatever the filter, the source and the behaviour of the roster
\* source, get_dashboard_data returns a snapshot with every field and
\* never raises.
C4_SnapshotAlwaysProduced ==
    last.op = "get_dashboard_data"
    => /\ ~raised
       /\ served # None
       /\ SnapshotFields \subseteq DOMAIN served[1]

\* C5: a request for the AIMS source, returning or raising, leaves every
\* field of the CSV path as it was before the request.
C5_AimsLeavesCsvPath ==
    (last.op = "get_dashboard_data" /\ last.input.source = "aims")
    => \A field \in SwappedFields :
           processor[field] = last.before[1][field]

(***************************************************************************)
(* The file watcher and a request: on_csv_file_change re-parses a changed  *)
(* flight report on the watcher thread while the request threads of the    *)
(* server compute snapshots. The processor has no lock, so a request may   *)
(* run between any two steps of the re-parse.                              *)
(***************************************************************************)

MaxReparseRows == 2

\* the changed flight reports the watcher is told of
ReparseInputs ==
    [kind : {"rows"}, rows : DistinctSeqs(SampleFlightRows, MaxReparseRows)]

InitConc ==
    /\ processor = get_processor(StartupFiles)
    /\ served = None
    /\ raised = FALSE
    /\ last = NoOp
    /\ watcher = Idle
    /\ call = None
    /\ result = None

\* on_csv_file_change enters process_dayrep_csv: the collections are
\* emptied (lines 415-428) and the file is read.
WatcherBegin ==
    \E input \in ReparseInputs :
        /\ watcher.pc = "idle"
        /\ processor' = DayrepReset(processor)
        /\ watcher' = [pc |-> "rows", rows |-> input.rows,
                       old |-> processor, input |-> input]
        /\ served' = None
        /\ raised' = FALSE
        /\ last' = [op |-> "on_csv_file_change", input |-> input,
                    before |-> None]
        /\ UNCHANGED <<call, result>>

\* one turn of the row loop: lines 476-545
WatcherRow ==
    /\ watcher.pc = "rows"
    /\ watcher.rows # <<>>
    /\ processor' = DayrepRow(processor, Head(watcher.rows))
    /\ watcher' = [watcher EXCEPT !.rows = Tail(@)]
    /\ served' = None
    /\ raised' = FALSE
    /\ last' = [op |-> "on_csv_file_change", input |-> watcher.input,
                before |-> None]
    /\ UNCHANGED <<call, result>>

\* the loop is over: lines 547-560, and the parse returns
WatcherFinish ==
    /\ watcher.pc = "rows"
    /\ watcher.rows = <<>>
    /\ processor' = DayrepFinish(processor)
    /\ watcher' = Idle
    /\ served' = None
    /\ raised' = FALSE
    /\ last' = [op |-> "process_dayrep_csv", input |-> watcher.input,
                before |-> None]
    /\ UNCHANGED <<call, result>>

NextConc ==
    \/ WatcherBegin
    \/ WatcherRow
    \/ WatcherFinish
    \/ Index

SpecConc == InitConc /\ [][NextConc]_vars

\* C2: a snapshot computed while a flight report is re-parsed is the
\* snapshot of the collections before the re-parse or the snapshot of the
\* collections after it, never one of emptied, partly filled or mixed
\* collections.
C2_SnapshotOldOrNew ==
    (last.op = "index" /\ watcher.pc # "idle")
    => \/ served = index(watcher.old, last.input.filter_date, NoAims).data
       \/ served = index(process_dayrep_csv(watcher.old, watcher.input),
                         last.input.filter_date, NoAims).data

(***************************************************************************)
(* Crew groups changing aircraft: flight reports of up to three flights    *)
(***************************************************************************)

\* Flights of the crew pair 111/222 on three aircraft and twice on one of
\* them, and a flight of crew 333 alone on another day.
SampleRotationRows ==
    {FlightRow(Some(<<15, 1, 26>>), "VN-A320", "VJ101", Colon(8, 0), Colon(10, 0),
               <<Member("AN", "CP", 111), Member("BINH", "FO", 222)>>),
     FlightRow(Some(<<15, 1, 26>>), "VN-A321", "VJ102", Colon(12, 0),
               Colon(14, 0),
               <<Member("BINH", "FO", 222), Member("AN", "CP", 111)>>),
     FlightRow(Some(<<15, 1, 26>>), "VN-A330", "VJ103", Colon(15, 0),
               Colon(16, 0),
               <<Member("AN", "CP", 111), Member("BINH", "FO", 222)>>),
     FlightRow(Some(<<15, 1, 26>>), "VN-A320", "VJ104", Colon(18, 0),
               Colon(19, 0),
               <<Member("AN", "CP", 111), Member("BINH", "FO", 222)>>),
     FlightRow(Some(<<16, 1, 26>>), "VN-A321", "VJ105", Colon(9, 0),
               Colon(10, 0), <<Member("CUC", "FA", 333)>>)}

MaxRotationRows == 3

RotationInputs ==
    [kind : {"rows"}, rows : DistinctSeqs(SampleRotationRows, MaxRotationRows)]

ProcessRotationReport ==
    \E input \in RotationInputs :
        /\ processor' = process_dayrep_csv(processor, input)
        /\ served' = None
        /\ raised' = FALSE
        /\ last' = [op |-> "process_dayrep_csv", input |-> input, before |-> None]
        /\ UNCHANGED <<watcher, call, result>>

NextRot ==
    \/ ProcessRotationReport
    \/ Index

SpecRot == Init /\ [][NextRot]_vars

\* the flights a request for filter_date is about
FlightsOfDate(flights, filter_date) ==
    IF filter_date = None THEN flights
    ELSE SelectSeq(flights, LAMBDA f : f.date = filter_date)

\* the crew ids of a flight, as a set
CrewIdSet(f) == {f.crew[i].id : i \in 1..Len(f.crew)}

\* the registrations the flights of one crew group use
RegsOfGroup(flights, group) ==
    {flights[i].reg : i \in {j \in 1..Len(flights) :
                                 CrewIdSet(flights[j]) = group}}

\* C12: in the view of a request, every crew group whose flights use d >= 2
\* distinct registrations counts once in crew_rotation_count and has exactly
\* one rotation entry, with rotations = d - 1; a group on one registration
\* counts for nothing and has no entry.
C12_RotationDetection ==
    (last.op = "index" /\ served # None)
    => LET view == FlightsOfDate(processor.flights, last.input.filter_date)
           groups == {CrewIdSet(view[i]) : i \in 1..Len(view)} \ {{}}
           rotating == {g \in groups : Cardinality(RegsOfGroup(view, g)) >= 2}
           entries == served[1].crew_rotations
       IN /\ served[1].summary.crew_rotation_count = Cardinality(rotating)
          /\ Len(entries) = Cardinality(rotating)
          /\ \A g \in rotating :
                 \E i \in 1..Len(entries) :
                     /\ Range(entries[i].crew_ids) = g
                     /\ entries[i].rotations
                            = Cardinality(RegsOfGroup(view, g)) - 1
          /\ \A i \in 1..Len(entries) :
                 Range(entries[i].crew_ids) \in rotating

\* C12 happens: a crew pair flew three registrations on the day asked for,
\* which gives one entry with two rotations.
C12_Witness ==
    /\ last.op = "index"
    /\ served # None
    /\ last.input.filter_date = <<15, 1, 26>>
    /\ served[1].summary.crew_rotation_count = 1
    /\ Len(served[1].crew_rotations) = 1
    /\ served[1].crew_rotations[1].rotations = 2
    /\ served[1].crew_rotations[1].regs = {"VN-A320", "VN-A321", "VN-A330"}

\* the block minutes of a flight record, read from its two times
BlockOf(f) ==
    IF f.std.kind = "colon" /\ f.sta.kind = "colon"
    THEN ((f.sta.h * 60 + f.sta.m) - (f.std.h * 60 + f.std.m) + 1440) % 1440
    ELSE 0

\* the block minutes of the flights of one registration
RECURSIVE BlockOfReg(_, _)
BlockOfReg(flights, reg) ==
    IF flights = <<>> THEN 0
    ELSE (IF Head(flights).reg = reg THEN BlockOf(Head(flights)) ELSE 0)
         + BlockOfReg(Tail(flights), reg)

\* C13: after a flight report was parsed, the snapshot of a date reports as
\* total_flights the rows of that operating date, as total_aircraft their
\* distinct registrations, and for each of these registrations an aircraft
\* entry whose total_hours is the sum of the block hours of its flights of
\* that date; two rows of one date on two registrations with the same crew
\* string give 2 flights, 2 aircraft and one rotation entry with rotations 1.
C13_SnapshotOfDate ==
    (/\ last.op = "index"
     /\ served # None
     /\ last.input.filter_date # None)
    => LET view == FlightsOfDate(processor.flights, last.input.filter_date)
           regs == {view[i].reg : i \in 1..Len(view)}
           snap == served[1]
       IN /\ snap.summary.total_flights = Len(view)
          /\ snap.summary.total_aircraft = Cardinality(regs)
          /\ \A reg \in regs :
                 /\ reg \in DOMAIN snap.aircraft
                 /\ snap.aircraft[reg].total_hours * 6 = BlockOfReg(view, reg)
          /\ (/\ Len(view) = 2
              /\ view[1].reg # view[2].reg
              /\ view[1].crew = view[2].crew
              /\ view[1].crew # <<>>)
             => /\ snap.summary.total_flights = 2
                /\ snap.summary.total_aircraft = 2
                /\ snap.summary.crew_rotation_count = 1
                /\ Len(snap.crew_rotations) = 1
                /\ snap.crew_rotations[1].rotations = 1

(***************************************************************************)
(* Crew duty reports in matrix layout, on a server that found a flight     *)
(* report at start-up                                                      *)
(***************************************************************************)

\* Matrix rows with three day cells: every duty token alone, "CS" and
\* "CSL", cells with two tokens, a cell that names no duty, an empty cell,
\* a crew id on two rows, and a line that is no crew row.
SampleMatrixRows ==
    {DutyRow(Some(111), "AN",
             << <<"S", "B", "Y">>, <<"S", "L">>,
                <<"O", "F", "F", " ", "F", "G", "T">> >>, 0, 0, 0, 0),
     DutyRow(Some(222), "BINH",
             << <<"O", "S", "B", "Y">>, <<>>,
                <<"S", "L", " ", "S", "B", "Y">> >>, 0, 0, 0, 0),
     DutyRow(Some(111), "AN",
             << <<"C", "S", "L">>, <<"F", "G", "T">>, <<"C", "S">> >>,
             0, 0, 0, 0),
     DutyRow(Some(444), "DUNG",
             << <<"X", "X">>, <<"O", "F", "F">>,
                <<"F", "G", "T", " ", "C", "S">> >>, 0, 0, 0, 0),
     DutyRow(None, "Total",
             << <<"S", "B", "Y">>, <<"S", "B", "Y">>, <<"S", "B", "Y">> >>,
             0, 0, 0, 0)}

MaxMatrixRows == 2

\* Reports of January whose header names three days, or one day twice,
\* and the year 2025 or 2026; they are parsed in 2026.
MatrixInputs ==
    [kind : {"content"}, layout : {"matrix"},
     rows : DistinctSeqs(SampleMatrixRows, MaxMatrixRows),
     day_cols : {<<15, 16, 17>>, <<18, 18, 16>>}, month : {1},
     year : {2025, 2026},
     now_year : {2026}]

ProcessMatrixReport ==
    \E input \in MatrixInputs :
        /\ processor' = process_crew_schedule_csv(processor, input)
        /\ served' = None
        /\ raised' = FALSE
        /\ last' = [op |-> "process_crew_schedule_csv", input |-> input,
                    before |-> None]
        /\ UNCHANGED <<watcher, call, result>>

NextDuty ==
    \/ ProcessMatrixReport
    \/ Index

SpecDuty == InitCrew /\ [][NextDuty]_vars

\* the last operation parsed a matrix report, which is still what the
\* processor holds
MatrixParsed ==
    /\ last.op = "process_crew_schedule_csv"
    /\ last.input.kind = "content"
    /\ last.input.layout = "matrix"

\* The duty type the precedence gives a cell: OSBY, then SBY, then CSL for
\* "CS", then SL, FGT, OFF; "" when the cell names none.
DutyOfCell(val) ==
    IF Contains(val, <<"O", "S", "B", "Y">>) THEN "OSBY"
    ELSE IF Contains(val, <<"S", "B", "Y">>) THEN "SBY"
    ELSE IF Contains(val, <<"C", "S">>) THEN "CSL"
    ELSE IF Contains(val, <<"S", "L">>) THEN "SL"
    ELSE IF Contains(val, <<"F", "G", "T">>) THEN "FGT"
    ELSE IF Contains(val, <<"O", "F", "F">>) THEN "OFF"
    ELSE ""

\* the cells of a report that hold a duty token: (row, column) pairs of the
\* crew rows
DutyCells(input) ==
    {rc \in (1..Len(input.rows)) \X (1..Len(input.day_cols)) :
        /\ input.rows[rc[1]].crew_id # None
        /\ DutyOfCell(input.rows[rc[1]].cells[rc[2]]) # ""}

\* the date of a day column: the day of the header in the month and year
\* the report names
DateOfColumn(input, col) ==
    <<input.day_cols[col], input.month, input.year % 100>>

\* the records a cell produced
RecordsOfCell(records, input, rc) ==
    {i \in 1..Len(records) :
        /\ records[i].crew_id = input.rows[rc[1]].crew_id[1]
        /\ records[i].duty_type = DutyOfCell(input.rows[rc[1]].cells[rc[2]])
        /\ records[i].duty_date = DateOfColumn(input, rc[2])}

DutyTypes == {"SL", "CSL", "SBY", "OSBY", "FGT", "OFF"}

\* C14: in a matrix report every cell with a duty token in the column of
\* day d gives one duty record dated d of the month and year the report
\* names, one more in that date's count of the duty type and one more in the
\* global summary of the type; no other date's count changes, whatever the
\* other day columns of the crew hold.
C14_MatrixCellCounts ==
    MatrixParsed
    => LET input == last.input
           cells == DutyCells(input)
           records == processor.standby_records
           by_date == processor.crew_schedule_by_date
           dates == DOMAIN by_date
                    \cup {DateOfColumn(input, c) : c \in 1..Len(input.day_cols)}
       IN /\ Len(records) = Cardinality(cells)
          /\ \A rc \in cells : RecordsOfCell(records, input, rc) # {}
          /\ \A t \in DutyTypes :
                 processor.crew_schedule.summary[t]
                     = Cardinality({rc \in cells :
                           DutyOfCell(input.rows[rc[1]].cells[rc[2]]) = t})
          /\ \A d \in dates : \A t \in DutyTypes :
                 Get(Get(by_date, d, DefaultCounts), t, 0)
                     = Cardinality({rc \in cells :
                           /\ DateOfColumn(input, rc[2]) = d
                           /\ DutyOfCell(input.rows[rc[1]].cells[rc[2]]) = t})

\* the cell at place k of a report read row by row
CellAt(input, k) ==
    LET width == Len(input.day_cols)
        r == ((k - 1) \div width) + 1
        c == ((k - 1) % width) + 1
    IN [crew_id |-> input.rows[r].crew_id,
        duty_type |-> DutyOfCell(input.rows[r].cells[c])]

\* C15: the duty type of a matrix cell follows one precedence and a cell
\* gives at most one record: OSBY before SBY, then CSL for a cell with "CS"
\* (never SL), then SL, FGT and OFF; a cell that names no duty gives no
\* record. So the records of a report are, in reading order, the crew and
\* the duty type of its cells that name a duty.
C15_TokenPrecedence ==
    MatrixParsed
    => LET input == last.input
           records == processor.standby_records
           all == [k \in 1..(Len(input.rows) * Len(input.day_cols)) |->
                       CellAt(input, k)]
           expected == SelectSeq(all, LAMBDA x : x.crew_id # None
                                                 /\ x.duty_type # "")
       IN [i \in 1..Len(records) |->
               [crew_id |-> Some(records[i].crew_id),
                duty_type |-> records[i].duty_type]] = expected

\* C15 happens: a report with the cells OSBY, empty, "SL SBY", CSL, FGT
\* and CS was parsed and gave the records OSBY, SBY, CSL, FGT and CSL.
C15_Witness ==
    /\ MatrixParsed
    /\ Len(last.input.rows) = 2
    /\ last.input.rows[1].cells[1] = <<"O", "S", "B", "Y">>
    /\ last.input.rows[1].cells[3] = <<"S", "L", " ", "S", "B", "Y">>
    /\ last.input.rows[2].cells[1] = <<"C", "S", "L">>
    /\ Len(processor.standby_records) = 5
    /\ processor.standby_records[1].duty_type = "OSBY"
    /\ processor.standby_records[2].duty_type = "SBY"
    /\ processor.standby_records[3].duty_type = "CSL"
    /\ processor.standby_records[4].duty_type = "FGT"
    /\ processor.standby_records[5].duty_type = "CSL"

\* C16: after a matrix report was parsed the duty records hold at most one
\* record for a crew member and a date, also when the header has a day
\* twice or a crew id is on two rows.
C16_OneDutyPerCrewDate ==
    MatrixParsed
    => \A i, j \in 1..Len(processor.standby_records) :
           (/\ processor.standby_records[i].crew_id
                   = processor.standby_records[j].crew_id
            /\ processor.standby_records[i].duty_date
                   = processor.standby_records[j].duty_date)
           => i = j

\* C17: a request for a date no flight has as operating date gets empty
\* flight-derived parts, though other dates have flights: the five counts
\* are 0 and aircraft, operating crew, crew roles and crew rotations are
\* empty; the duty records of that date are reported all the same.
C17_DateWithoutFlights ==
    (/\ last.op = "index"
     /\ served # None
     /\ last.input.filter_date # None
     /\ FlightsOfDate(processor.flights, last.input.filter_date) = <<>>)
    => LET snap == served[1]
           duties == SelectSeq(processor.standby_records,
                         LAMBDA r : r.duty_date = last.input.filter_date)
       IN /\ snap.summary.total_flights = 0
          /\ snap.summary.total_aircraft = 0
          /\ snap.summary.total_crew = 0
          /\ snap.summary.crew_rotation_count = 0
          /\ snap.summary.total_block_hours = 0
          /\ DOMAIN snap.aircraft = {}
          /\ snap.operating_crew = <<>>
          /\ DOMAIN snap.crew_roles = {}
          /\ snap.crew_rotations = <<>>
          /\ snap.standby_records = duties
          /\ \A t \in DutyTypes :
                 snap.crew_schedule.summary[t]
                     = Cardinality({i \in 1..Len(duties) :
                                        duties[i].duty_type = t})

\* C17 happens: flights are loaded, none on 18/01/26, a duty record is of
\* that date, and the snapshot of that date counts no flight and lists the
\* duty.
C17_Witness ==
    /\ last.op = "index"
    /\ served # None
    /\ last.input.filter_date = <<18, 1, 26>>
    /\ processor.flights # <<>>
    /\ \E i \in 1..Len(processor.standby_records) :
           processor.standby_records[i].duty_date = <<18, 1, 26>>
    /\ served[1].summary.total_flights = 0
    /\ served[1].standby_records # <<>>

\* the aircraft type the registration heuristic gives the sample
\* registrations: "A321" in it or a leading "A6" is 321, "A330" in it is
\* 330, anything else 320
TypeOfReg(reg) ==
    CASE reg = "VN-A321" -> "321"
      [] reg = "A6-XYZ" -> "321"
      [] reg = "VN-A330" -> "330"
      [] OTHER -> "320"

\* the flights of a type whose two times are readable
TimedOfType(flights, t) ==
    SelectSeq(flights, LAMBDA f : /\ f.std.kind = "colon"
                                  /\ f.sta.kind = "colon"
                                  /\ TypeOfReg(f.reg) = t)

RECURSIVE BlockOfAll(_)
BlockOfAll(flights) ==
    IF flights = <<>> THEN 0
    ELSE BlockOf(Head(flights)) + BlockOfAll(Tail(flights))

\* utilization derived from the flights of a view, type by type
DerivedUtilization(flights) ==
    LET types == {t \in {"320", "321", "330"} : TimedOfType(flights, t) # <<>>}
    IN [t \in types |->
           LET b == BlockOfAll(TimedOfType(flights, t))
           IN [total_block |-> Colon(b \div 60, b % 60),
               total_cycles |-> Len(TimedOfType(flights, t)),
               dom_block |-> Colon(b \div 60, b % 60),
               int_block |-> Colon(0, 0),
               avg_util |-> "-"]]

\* C18: the utilization of a snapshot comes from one source, by strict
\* priority: the figures the utilization report has for the date asked
\* for; else the all-dates totals of the report when it has any; else the
\* figures derived from the flights of the view, grouped by the type the
\* registration heuristic gives (320 by default). Never a merge.
C18_UtilizationPriority ==
    (last.op = "index" /\ served # None)
    => LET filter_date == last.input.filter_date
           util == served[1].utilization
       IN IF filter_date # None
             /\ filter_date \in DOMAIN processor.ac_utilization_by_date
          THEN util = processor.ac_utilization_by_date[filter_date]
          ELSE IF DOMAIN processor.ac_utilization # {}
          THEN util = processor.ac_utilization
          ELSE util = DerivedUtilization(
                          FlightsOfDate(processor.flights, filter_date))

\* C18 happens: flights and a utilization report of two dates are loaded,
\* and the snapshot of 15/01/26 carries the figures of that date, which are
\* neither the totals nor the figures derived from the flights.
C18_Witness ==
    /\ last.op = "index"
    /\ served # None
    /\ last.input.filter_date = <<15, 1, 26>>
    /\ <<15, 1, 26>> \in DOMAIN processor.ac_utilization_by_date
    /\ processor.ac_utilization # processor.ac_utilization_by_date[<<15, 1, 26>>]
    /\ FlightsOfDate(processor.flights, <<15, 1, 26>>) # <<>>
    /\ served[1].utilization = processor.ac_utilization_by_date[<<15, 1, 26>>]
    /\ served[1].utilization
           # DerivedUtilization(FlightsOfDate(processor.flights, <<15, 1, 26>>))

\* C19: with a date filter the duty summary of the snapshot holds, for
\* every duty type, the number of duty records of that date, counted from
\* the records themselves; a date without records gives zeros, and the
\* standby_records of the snapshot are exactly the records of the date.
C19_DutySummaryOfDate ==
    (/\ last.op = "index"
     /\ served # None
     /\ last.input.filter_date # None)
    => LET snap == served[1]
           records == processor.standby_records
           of_date == {i \in 1..Len(records) :
                           records[i].duty_date = last.input.filter_date}
       IN /\ DOMAIN snap.crew_schedule.summary = DutyTypes
          /\ \A t \in DutyTypes :
                 snap.crew_schedule.summary[t]
                     = Cardinality({i \in of_date : records[i].duty_type = t})
          /\ Len(snap.standby_records) = Cardinality(of_date)
          /\ \A k \in 1..Len(snap.standby_records) :
                 snap.standby_records[k].duty_date = last.input.filter_date
          /\ snap.standby_records
                 = SelectSeq(records,
                       LAMBDA r : r.duty_date = last.input.filter_date)

\* C19 happens: the records hold a fatigue duty on 16/01/26 and a sick call
\* on another date; the snapshot of 16/01/26 counts the one and not the
\* other, and lists fewer records than are stored.
C19_Witness ==
    /\ last.op = "index"
    /\ served # None
    /\ last.input.filter_date = <<16, 1, 26>>
    /\ processor.crew_schedule.summary["CSL"] >= 1
    /\ served[1].crew_schedule.summary["CSL"] = 0
    /\ served[1].crew_schedule.summary["FGT"] = 1
    /\ Len(served[1].standby_records) >= 1
    /\ Len(served[1].standby_records) < Len(processor.standby_records)

(***************************************************************************)
(* retry_on_failure of the roster client: the wrapper of every SOAP call   *)
(***************************************************************************)

MaxRetries == 3

\* base_delay of the decorator, in seconds
SampleBaseDelays == {1, 2}

\* What the wrapped function does at each of its invocations: it returns
\* ("ok"), raises an Exception ("error"), or raises what is no Exception,
\* as KeyboardInterrupt or SystemExit ("exit").
RetryCalls ==
    [fn : {"retry"},
     max_retries : 0..MaxRetries,
     base_delay : SampleBaseDelays,
     outcomes : [1..MaxRetries -> {"ok", "error", "exit"}],
     pc : {"loop"},
     attempt : {0},
     invocations : {0},
     slept : {<<>>},
     last_exception : {0}]

RECURSIVE Pow2(_)
Pow2(n) == IF n = 0 THEN 1 ELSE 2 * Pow2(n - 1)

\* A delay that grows by base_delay with every attempt.
LinearDelay(base_delay, attempt) == base_delay * (attempt + 1)

\* delay = base_delay * (2 ** attempt): line 61
RetryDelay(base_delay, attempt) == base_delay * Pow2(attempt)

InitRetry ==
    /\ processor = DataProcessorInit
    /\ served = None
    /\ raised = FALSE
    /\ last = NoOp
    /\ watcher = Idle
    /\ call \in RetryCalls
    /\ result = None

\* One turn of the loop of lines 57-59: func is invoked; its result is
\* returned, or its Exception kept as last_exception; what is no Exception
\* leaves the wrapper at once.
RetryInvoke ==
    /\ call.fn = "retry"
    /\ call.pc = "loop"
    /\ call.attempt < call.max_retries
    /\ \E outcome \in {call.outcomes[call.attempt + 1]} :
           /\ call' = [call EXCEPT
                          !.invocations = @ + 1,
                          !.pc = IF outcome = "error" THEN "sleep" ELSE "done",
                          !.last_exception =
                              IF outcome = "error" THEN call.attempt + 1 ELSE @]
           /\ result' = CASE outcome = "ok" ->
                                Some([kind |-> "returned",
                                      of |-> call.attempt + 1])
                          [] outcome = "exit" ->
                                Some([kind |-> "propagated",
                                      of |-> call.attempt + 1])
                          [] OTHER -> None
           /\ raised' = (outcome = "exit")
    /\ UNCHANGED <<processor, served, last, watcher>>

\* Lines 61-63: the delay is computed and slept, and the loop goes on.
RetrySleep ==
    /\ call.fn = "retry"
    /\ call.pc = "sleep"
    /\ call' = [call EXCEPT
                   !.slept = Append(@, RetryDelay(call.base_delay, call.attempt)),
                   !.attempt = @ + 1,
                   !.pc = "loop"]
    /\ UNCHANGED <<processor, served, raised, last, watcher, result>>

\* Lines 64-65: the loop is over and last_exception is raised; with
\* max_retries = 0 it is None and the raise statement gives a TypeError
\* (of 0 here).
RetryExhausted ==
    /\ call.fn = "retry"
    /\ call.pc = "loop"
    /\ call.attempt = call.max_retries
    /\ call' = [call EXCEPT !.pc = "done"]
    /\ result' = Some([kind |-> "raised", of |-> call.last_exception])
    /\ raised' = TRUE
    /\ UNCHANGED <<processor, served, last, watcher>>

NextRetry ==
    \/ RetryInvoke
    \/ RetrySleep
    \/ RetryExhausted

SpecRetry == InitRetry /\ [][NextRetry]_vars

\* The thread of the wrapper keeps running: an invocation returns or
\* raises, and time.sleep returns.
SpecRetryLive == SpecRetry /\ WF_vars(NextRetry)

\* the first n invocations all raise an Exception
AllFail(outcomes, n) == \A j \in 1..n : outcomes[j] = "error"

\* the delays slept so far start at base_delay and double
DelaysDouble(slept, base_delay) ==
    /\ slept # <<>> => slept[1] = base_delay
    /\ \A k \in 2..Len(slept) : slept[k] = 2 * slept[k - 1]

\* what holds of a wrapped call at every moment
RetryBounded ==
    /\ call.invocations <= call.max_retries
    /\ DelaysDouble(call.slept, call.base_delay)
    /\ (result # None /\ result[1].kind = "returned")
       => /\ call.outcomes[result[1].of] = "ok"
          /\ AllFail(call.outcomes, result[1].of - 1)
          /\ call.invocations = result[1].of
          /\ Len(call.slept) = result[1].of - 1
    /\ (result # None /\ result[1].kind = "raised" /\ call.max_retries >= 1)
       => /\ AllFail(call.outcomes, call.max_retries)
          /\ result[1].of = call.max_retries
          /\ call.invocations = call.max_retries
          /\ Len(call.slept) = call.max_retries

\* C20: a call wrapped by retry_on_failure(max_retries = n) ends, after at
\* most n invocations of the function: it returns what the first invocation
\* that does not raise returned and invokes no more; after the k-th failure
\* it waits base_delay doubled k - 1 times; after n failures it raises the
\* last exception.
C20_BoundedRetry == [](RetryBounded) /\ <>(result # None)

\* C20 happens: three invocations failed, the waits were 1, 2 and 4 seconds
\* and the third exception was raised.
C20_Witness ==
    /\ call.fn = "retry"
    /\ call.max_retries = 3
    /\ call.invocations = 3
    /\ call.slept = <<1, 2, 4>>
    /\ result # None
    /\ result[1] = [kind |-> "raised", of |-> 3]

(***************************************************************************)
(* Bulk crew status of the roster client, and the snapshot that shows it   *)
(***************************************************************************)

\* max_crew of get_bulk_crew_status
MaxCrew == 200

\* A crew list is a sequence of runs [class, n]: n consecutive members whose
\* roster of the day puts them in one class. "noid" is a member without
\* crew_id, "FGT" a roster without a status code, "OTHER" a roster request
\* that failed, came back empty or raised.
StatusTiers == {"SBY", "SL", "CSL", "OFF", "FGT", "OTHER"}

CrewRun(class, n) == [class |-> class, n |-> n]

SampleCrewLists ==
    {<<CrewRun(a, n1), CrewRun(b, n2)>> :
        a \in {"SBY", "SL", "FGT", "noid"}, n1 \in {0, 100, 120, 200},
        b \in {"CSL", "OFF", "OTHER"}, n2 \in {0, 1, 85, 101}}

\* what get_crew_list gives: a crew list, or a result without success
CrewListResults ==
    [success : {TRUE}, crew_list : SampleCrewLists]
    \cup {[success |-> FALSE, crew_list |-> <<>>]}

RECURSIVE CrewListLen(_)
CrewListLen(crew_list) ==
    IF crew_list = <<>> THEN 0
    ELSE Head(crew_list).n + CrewListLen(Tail(crew_list))

\* The loop of lines 894-927 over crew_list[:max_crew]: left is what is
\* left of the slice.
RECURSIVE BulkCounts(_, _, _)
BulkCounts(counts, crew_list, left) ==
    IF crew_list = <<>> \/ left = 0 THEN counts
    ELSE LET run == Head(crew_list)
             n == IF run.n < left THEN run.n ELSE left
         IN BulkCounts(IF run.class = "noid" THEN counts
                       ELSE [counts EXCEPT ![run.class] = @ + n],
                       Tail(crew_list), left - n)

\* the largest e with den * 2^e <= num, for num >= den
RECURSIVE FloorLog2(_, _)
FloorLog2(num, den) ==
    IF num < 2 * den THEN 0 ELSE 1 + FloorLog2(num, 2 * den)

RECURSIVE Pow2Mod25(_)
Pow2Mod25(k) == IF k = 0 THEN 1 ELSE (2 * Pow2Mod25(k - 1)) % 25

\* Line 933, int(counts[k] * scale) with scale = len(crew_list) / max_crew
\* of line 931, in the double arithmetic of the interpreter. The quotient
\* total / 200 is rounded to 53 bits: r of 25 parts of its last bit are
\* lost when r <= 12. The product with count is rounded again; it falls
\* below an exact integer quotient k when the loss, count times over,
\* exceeds half the spacing of the doubles under k. A quotient that is no
\* integer is at least 1/200 away from one, and is truncated as the exact
\* quotient is.
ScaledCount(count, total) ==
    IF count = 0 \/ (count * total) % MaxCrew # 0
    THEN (count * total) \div MaxCrew
    ELSE LET eq == FloorLog2(total, MaxCrew)
             r == ((total % 25) * Pow2Mod25(49 - eq)) % 25
             k == (count * total) \div MaxCrew
             ek == IF k = Pow2(FloorLog2(k, 1)) /\ k > 1
                   THEN FloorLog2(k, 1) - 1
                   ELSE FloorLog2(k, 1)
         IN IF r \in 1..12 /\ count * r * Pow2(eq + 1) > 25 * Pow2(ek)
            THEN k - 1
            ELSE k

\* AIMSSoapClient.get_bulk_crew_status, lines 878-943
get_bulk_crew_status(crew_res) ==
    IF ~crew_res.success
    THEN [outcome |-> "result", success |-> FALSE, summary |-> EmptyDict,
          sampled_crew |-> 0, total_crew |-> 0]
    ELSE LET total == CrewListLen(crew_res.crew_list)
             counts == BulkCounts([t \in StatusTiers |-> 0],
                                  crew_res.crew_list, MaxCrew)
         IN [outcome |-> "result", success |-> TRUE,
             summary |-> IF total > MaxCrew
                         THEN [t \in StatusTiers |->
                                  ScaledCount(counts[t], total)]
                         ELSE counts,
             sampled_crew |-> IF total < MaxCrew THEN total ELSE MaxCrew,
             total_crew |-> total]

\* A request for the snapshot while the roster source answers the status
\* request from a crew list and has no legs to give.
BulkStatusRequest ==
    \E filter_date \in {None, <<16, 1, 26>>}, crew_res \in CrewListResults :
        \E status_res \in {get_bulk_crew_status(crew_res)} :
            \E r \in {get_dashboard_data(
                          processor, filter_date, "csv",
                          [available |-> TRUE, today |-> <<15, 1, 26>>,
                           status |-> status_res, legs |-> LegsFailed])} :
                /\ processor' = r.st
                /\ served' = r.data
                /\ raised' = r.raised
                /\ last' = [op |-> "get_bulk_crew_status",
                            input |-> [filter_date |-> filter_date,
                                       crew_res |-> crew_res],
                            before |-> Some(processor)]
                /\ result' = Some(status_res)
                /\ UNCHANGED <<watcher, call>>

NextBulk == BulkStatusRequest

SpecBulk == InitCrew /\ [][NextBulk]_vars

\* the class of the member at position p of a crew list
RECURSIVE ClassAt(_, _)
ClassAt(crew_list, p) ==
    IF p <= Head(crew_list).n THEN Head(crew_list).class
    ELSE ClassAt(Tail(crew_list), p - Head(crew_list).n)

\* C21: of a crew list of N members at most 200 are asked; a reported
\* count is the sampled count times N over 200, truncated, when N > 200 and
\* the sampled count itself otherwise; the result carries total_crew = N and
\* sampled_crew = min(N, 200), and the snapshot that shows the live summary
\* shows both numbers.
C21_BulkSampling ==
    (last.op = "get_bulk_crew_status" /\ last.input.crew_res.success)
    => LET crew_list == last.input.crew_res.crew_list
           N == CrewListLen(crew_list)
           sampled == IF N < MaxCrew THEN N ELSE MaxCrew
           count(t) == Cardinality({p \in 1..sampled :
                                        ClassAt(crew_list, p) = t})
           expected(t) == IF N > MaxCrew THEN (count(t) * N) \div sampled
                          ELSE count(t)
       IN /\ result[1].total_crew = N
          /\ result[1].sampled_crew = sampled
          /\ \A t \in StatusTiers : result[1].summary[t] = expected(t)
          /\ served # None
          /\ served[1].crew_status_source = Some(<<sampled, N>>)
          /\ \A t \in {"SBY", "SL", "CSL", "FGT", "OFF"} :
                 served[1].crew_schedule.summary[t] = expected(t)

(***************************************************************************)
(* The four record extractors as they are called: with uploaded bytes or   *)
(* with the files of the data directory                                    *)
(***************************************************************************)

\* Bytes of a report that are not ASCII stand between bytes that are: the
\* letter A, the two bytes of e-acute in UTF-8 (C3 A9), e-acute in
\* Windows-1252 and Latin-1 (E9), and 81, which Windows-1252 does not define.
SampleBytes == {65, 195, 169, 233, 129}

MaxTextBytes == 2

SampleTexts == SeqsUpTo(SampleBytes, MaxTextBytes)

IsContinuation(b) == b \in 128..191

\* bytes.decode('utf-8'): None when a UnicodeDecodeError is raised
RECURSIVE decode_utf8(_)
decode_utf8(bytes) ==
    IF bytes = <<>> THEN Some(<<>>)
    ELSE LET b == Head(bytes)
             n == IF b < 128 THEN 1
                  ELSE IF b \in 194..223 THEN 2
                  ELSE IF b \in 225..236 THEN 3
                  ELSE 0
             ok == /\ n > 0
                   /\ Len(bytes) >= n
                   /\ \A i \in 2..n : IsContinuation(bytes[i])
             char == IF n = 1 THEN b
                     ELSE IF n = 2 THEN (b - 192) * 64 + (bytes[2] - 128)
                     ELSE (b - 224) * 4096 + (bytes[2] - 128) * 64
                          + (bytes[3] - 128)
             rest == IF ok THEN decode_utf8(SubSeq(bytes, n + 1, Len(bytes)))
                     ELSE None
         IN IF rest = None THEN None ELSE Some(<<char>> \o rest[1])

\* bytes.decode('cp1252') on the sample bytes
decode_cp1252(bytes) ==
    IF \E i \in 1..Len(bytes) : bytes[i] \in {129, 141, 143, 144, 157}
    THEN None
    ELSE Some(bytes)

\* bytes.decode('latin1')
decode_latin1(bytes) == Some(bytes)

\* The fallback of _decode_content_safe (lines 263-277) and of
\* _read_file_safe (lines 251-261): the text of the first codec that
\* accepts the bytes.
DecodeSafe(bytes) ==
    IF decode_utf8(bytes) # None THEN decode_utf8(bytes)
    ELSE IF decode_cp1252(bytes) # None THEN decode_cp1252(bytes)
    ELSE decode_latin1(bytes)

\* A call of an extractor: file_content is None or the uploaded bytes;
\* file is what the data directory holds for the report: "others" (uploads
\* exist, this report is not among them), "missing" (no uploads and no
\* default file) or a file with its bytes. The bytes given are the
\* non-ASCII part of the report; with them the text has the rows of the
\* sample report, and without any byte it is empty.
NoFile(kind) == [kind |-> kind, bytes |-> <<>>]
FileOf(bytes) == [kind |-> "file", bytes |-> bytes]

ExtractSources ==
    [file_content : {Some(t) : t \in SampleTexts \ {<<>>}},
     file : {NoFile("missing")}]
    \cup [file_content : {None},
          file : {NoFile("others"), NoFile("missing")}
                 \cup {FileOf(t) : t \in SampleTexts}]
    \cup [file_content : {Some(<<>>)},
          file : {NoFile("missing"), FileOf(<<65>>)}]

\* `if file_content:` of lines 433, 599, 799 and 944
HasContent(src) == src.file_content # None /\ src.file_content # Some(<<>>)

\* what _read_file_safe and the tests before it make of the data directory
FileRead(src) ==
    IF src.file.kind # "file" THEN [outcome |-> "return", text |-> <<>>]
    ELSE [outcome |-> "text", text |-> DecodeSafe(src.file.bytes)[1]]

\* Lines 433-435 and 599-620, 799-820, 944-987: the text the rows are read
\* from, or an immediate return.
SafeRead(src) ==
    IF HasContent(src)
    THEN [outcome |-> "text", text |-> DecodeSafe(src.file_content[1])[1]]
    ELSE FileRead(src)

\* Lines 433-454 of process_dayrep_csv: the file is opened as UTF-8, without
\* fallback; a default file that is missing leaves rows empty.
DayrepRead(src) ==
    IF HasContent(src)
    THEN [outcome |-> "text", text |-> DecodeSafe(src.file_content[1])[1]]
    ELSE IF src.file.kind = "others" THEN [outcome |-> "return", text |-> <<>>]
    ELSE IF src.file.kind = "missing" THEN [outcome |-> "text", text |-> <<>>]
    ELSE IF decode_utf8(src.file.bytes) = None
    THEN [outcome |-> "raise", text |-> <<>>]
    ELSE [outcome |-> "text", text |-> decode_utf8(src.file.bytes)[1]]

IntResult(n) == [type |-> "int", value |-> n]
DictResult == [type |-> "dict", value |-> 0]

\* the sample reports whose rows a non-empty text has
ExtractFlightRows ==
    <<FlightRow(Some(<<15, 1, 26>>), "VN-A320", "VJ101", Colon(8, 0),
                Colon(10, 0), <<Member("AN", "CP", 111)>>),
      FlightRow(Some(<<15, 1, 26>>), "", "VJ102", Colon(9, 0), Colon(10, 0),
                <<>>)>>

ExtractUtilRows ==
    <<UtilRow(Some(<<15, 1>>), "A320", Colon(10, 0), Colon(2, 30)),
      UtilRow(None, "Date", EmptyTime, EmptyTime)>>

ExtractRollingRows ==
    <<RollingRow(Some(111), "AN", Colon(84, 0)),
      RollingRow(None, "Total", Colon(360, 0))>>

ExtractDutyRows ==
    <<DutyRow(Some(111), "AN", << <<"S", "B", "Y">>, <<"S", "L">> >>, 0, 0, 0, 0),
      DutyRow(Some(555), "EM", << <<"X", "X">>, <<>> >>, 0, 0, 0, 0)>>

\* process_dayrep_csv as called: the processor it leaves, what it returns
\* (line 581, or 0 at line 447) and whether it raised
ExtractDayrep ==
    \E src \in ExtractSources :
        \E read \in {DayrepRead(src)} :
            \E st \in {CASE read.outcome = "raise" -> DayrepReset(processor)
                         [] read.outcome = "return" ->
                                process_dayrep_csv(processor, [kind |-> "absent"])
                         [] OTHER ->
                                process_dayrep_csv(
                                    processor,
                                    [kind |-> "rows",
                                     rows |-> IF read.text = <<>> THEN <<>>
                                              ELSE ExtractFlightRows])} :
                /\ processor' = st
                /\ raised' = (read.outcome = "raise")
                /\ result' = IF read.outcome = "raise" THEN None
                             ELSE Some(IntResult(Len(st.flights)))
                /\ served' = None
                /\ last' = [op |-> "extract_dayrep", input |-> src,
                            before |-> None]
                /\ UNCHANGED <<watcher, call>>

\* process_sacutil_csv as called: len(self.ac_utilization) of line 792, or
\* the empty dict of lines 611, 616 and 618
ExtractSacutil ==
    \E src \in ExtractSources :
        \E read \in {SafeRead(src)} :
            \E st \in {IF read.outcome = "return"
                       THEN process_sacutil_csv(processor, [kind |-> "absent"])
                       ELSE process_sacutil_csv(
                                processor,
                                [kind |-> "rows", year |-> 2026,
                                 rows |-> IF read.text = <<>> THEN <<>>
                                          ELSE ExtractUtilRows])} :
                /\ processor' = st
                /\ raised' = FALSE
                /\ result' = IF read.outcome = "return" THEN Some(DictResult)
                             ELSE Some(IntResult(
                                      Cardinality(DOMAIN st.ac_utilization)))
                /\ served' = None
                /\ last' = [op |-> "extract_sacutil", input |-> src,
                            before |-> None]
                /\ UNCHANGED <<watcher, call>>

\* process_rolcrtot_csv as called: len(self.rolling_hours) of line 926, or
\* 0 at lines 811-820 and 824
ExtractRolcrtot ==
    \E src \in ExtractSources :
        \E read \in {SafeRead(src)} :
            \E st \in {IF read.outcome = "return"
                       THEN process_rolcrtot_csv(processor, [kind |-> "absent"])
                       ELSE process_rolcrtot_csv(
                                processor,
                                [kind |-> "rows",
                                 rows |-> IF read.text = <<>> THEN <<>>
                                          ELSE ExtractRollingRows])} :
                /\ processor' = st
                /\ raised' = FALSE
                /\ result' = Some(IntResult(Len(st.rolling_hours)))
                /\ served' = None
                /\ last' = [op |-> "extract_rolcrtot", input |-> src,
                            before |-> None]
                /\ UNCHANGED <<watcher, call>>

SummaryTotal(summary) == SumOver(summary, DOMAIN summary)

\* process_crew_schedule_csv as called: sum(summary.values()) of line 1283,
\* or 0 at lines 981-987 and 997
ExtractCrewSchedule ==
    \E src \in ExtractSources :
        \E read \in {SafeRead(src)} :
            \E st \in {IF read.outcome = "return"
                       THEN process_crew_schedule_csv(processor,
                                                      [kind |-> "absent"])
                       ELSE IF read.text = <<>>
                       THEN process_crew_schedule_csv(processor,
                                                      [kind |-> "empty"])
                       ELSE process_crew_schedule_csv(
                                processor,
                                [kind |-> "content", layout |-> "matrix",
                                 rows |-> ExtractDutyRows,
                                 day_cols |-> <<15, 16>>, month |-> 1,
                                 year |-> 2026, now_year |-> 2026])} :
                /\ processor' = st
                /\ raised' = FALSE
                /\ result' = IF read.outcome = "text" /\ read.text # <<>>
                             THEN Some(IntResult(
                                      SummaryTotal(st.crew_schedule.summary)))
                             ELSE Some(IntResult(0))
                /\ served' = None
                /\ last' = [op |-> "extract_crew_schedule", input |-> src,
                            before |-> None]
                /\ UNCHANGED <<watcher, call>>

NextExtract ==
    \/ ExtractDayrep
    \/ ExtractSacutil
    \/ ExtractRolcrtot
    \/ ExtractCrewSchedule

SpecExtract == Init /\ [][NextExtract]_vars

ExtractOps ==
    {"extract_dayrep", "extract_sacutil", "extract_rolcrtot",
     "extract_crew_schedule"}

\* the records an extractor left in its collection
RecordsProduced ==
    CASE last.op = "extract_dayrep" -> Len(processor.flights)
      [] last.op = "extract_sacutil" -> Cardinality(DOMAIN processor.ac_utilization)
      [] last.op = "extract_rolcrtot" -> Len(processor.rolling_hours)
      [] OTHER -> Len(processor.standby_records)

\* C22: an extractor never raises and returns an integer, the number of
\* records it produced: for a missing file, for empty content, for bytes in
\* UTF-8, Windows-1252 or Latin-1 given as content or found in a file.
C22_ExtractorsDegrade ==
    last.op \in ExtractOps
    => /\ ~raised
       /\ result # None
       /\ result[1].type = "int"
       /\ result[1].value = RecordsProduced

(***************************************************************************)
(* The store as a second source: reports are parsed and synced, and a      *)
(* restarted server loads what the store holds                             *)
(***************************************************************************)

MaxStoreRows == 1

StandbyTypes == {"SL", "CSL", "SBY", "OSBY"}

\* The rows of the crew_schedule table as lines 1251-1259 of
\* process_crew_schedule_csv write them: count rows per date and type, for
\* the four standby types.
LegacyScheduleRows(st) ==
    {[date |-> d, status_type |-> t,
      count |-> Get(st.crew_schedule_by_date[d], t, 0)] :
         d \in DOMAIN st.crew_schedule_by_date, t \in StandbyTypes}

\* Lines 192-203 of load_from_supabase, on the rows of the crew_schedule
\* table: a date has an entry once a row of it was read.
LoadCrewSchedule(st, db_schedule) ==
    LET rows == {r \in db_schedule : r.count > 0}
        dates == {r.date : r \in rows}
        count(d, t) == SumOver([r \in rows |->
                                   IF r.date = d /\ r.status_type = t
                                   THEN r.count ELSE 0], rows)
        total(t) == SumOver([r \in rows |->
                                IF r.status_type = t THEN r.count ELSE 0], rows)
    IN IF rows = {} THEN st
       ELSE [st EXCEPT
               !.crew_schedule_by_date =
                   [d \in dates |-> [t \in StandbyTypes |-> count(d, t)]],
               !.crew_schedule.summary = [t \in StandbyTypes |-> total(t)]]

\* Lines 206-216 of load_from_supabase: the standby_records table, or the
\* local crew schedule file (here absent) when the table is empty.
LoadStandby(st, db_standby) ==
    IF db_standby # <<>> THEN [st EXCEPT !.standby_records = db_standby]
    ELSE process_crew_schedule_csv(st, [kind |-> "absent"])

\* What the syncs of the extractors leave in the store (lines 562-579,
\* 909-924 and 1246-1267), with an empty fact table or none.
StoreOf(st, fact_actuals) ==
    [flights |-> st.flights,
     rolling_hours |-> st.rolling_hours,
     crew_schedule |-> LegacyScheduleRows(st),
     standby_records |-> st.standby_records,
     fact_actuals |-> fact_actuals]

\* DataProcessor.load_from_supabase on a store that holds flights, rolling
\* hours, crew schedule rows and standby records: lines 64-119 and 184-217.
\* The rolling_hours table is not read (lines 184-190).
load_stored_records(st, store) ==
    LET st1 == StoredFlights(st, store.flights)
    IN IF store.fact_actuals.outcome = "missing"
       THEN [st |-> st1, raised |-> TRUE]
       ELSE [st |-> SecondFactPass(
                        LoadStandby(
                            LoadCrewSchedule(
                                FirstFactPass(st1, store.fact_actuals.rows),
                                store.crew_schedule),
                            store.standby_records),
                        store.fact_actuals.rows),
             raised |-> FALSE]

StoreDayrep ==
    \E rows \in DistinctSeqs(SampleFlightRows, MaxStoreRows) :
        /\ processor' = process_dayrep_csv(processor,
                                           [kind |-> "rows", rows |-> rows])
        /\ served' = None
        /\ raised' = FALSE
        /\ last' = [op |-> "process_dayrep_csv", input |-> rows,
                    before |-> None]
        /\ UNCHANGED <<watcher, call, result>>

StoreRolcrtot ==
    \E rows \in DistinctSeqs(SampleRollingRows, MaxStoreRows) :
        /\ processor' = process_rolcrtot_csv(processor,
                                             [kind |-> "rows", rows |-> rows])
        /\ served' = None
        /\ raised' = FALSE
        /\ last' = [op |-> "process_rolcrtot_csv", input |-> rows,
                    before |-> None]
        /\ UNCHANGED <<watcher, call, result>>

StoreCrewSchedule ==
    \E input \in [kind : {"content"}, layout : {"matrix", "standard"},
                  rows : DistinctSeqs(SampleDutyRows, MaxStoreRows),
                  day_cols : {<<15, 16>>}, month : {1}, year : {2026},
                  now_year : {2026}] :
        /\ processor' = process_crew_schedule_csv(processor, input)
        /\ served' = None
        /\ raised' = FALSE
        /\ last' = [op |-> "process_crew_schedule_csv", input |-> input,
                    before |-> None]
        /\ UNCHANGED <<watcher, call, result>>

\* The server is started again with the store connected: __init__ builds a
\* new processor and line 60 loads the store into it.
RestartFromStore ==
    \E fact_actuals \in {[outcome |-> "missing"],
                         [outcome |-> "rows", rows |-> <<>>]} :
        \E r \in {load_stored_records(DataProcessorInit,
                                      StoreOf(processor, fact_actuals))} :
            /\ processor' = r.st
            /\ served' = None
            /\ raised' = r.raised
            /\ last' = [op |-> "load_from_supabase", input |-> fact_actuals,
                        before |-> Some(processor)]
            /\ UNCHANGED <<watcher, call, result>>

NextStore ==
    \/ StoreDayrep
    \/ StoreRolcrtot
    \/ StoreCrewSchedule
    \/ RestartFromStore

SpecStore == Init /\ [][NextStore]_vars

\* the flight collections and indices of a processor
FlightCollections(st) ==
    <<st.flights, st.flights_by_date, st.available_dates,
      st.reg_flight_hours, st.reg_flight_count,
      st.reg_flight_hours_by_date, st.reg_flight_count_by_date,
      st.crew_to_regs, st.crew_to_regs_by_date,
      st.crew_group_rotations, st.crew_group_rotations_by_date,
      st.crew_roles>>

\* its rolling-hours and duty records
CrewCollections(st) ==
    <<st.rolling_hours, st.standby_records, st.crew_schedule_by_date>>

\* C23: a processor that loaded from the store the records a parse
\* produced holds the same flight collection, dates, indices and crew roles
\* as the processor that parsed, the same rolling-hours and duty records,
\* and computes the same snapshot for every filter.
C23_StoreEqualsParse ==
    last.op = "load_from_supabase"
    => /\ FlightCollections(processor) = FlightCollections(last.before[1])
       /\ CrewCollections(processor) = CrewCollections(last.before[1])
       /\ \A filter_date \in SampleFilters :
              MetricsOfState(processor, filter_date).data
                  = MetricsOfState(last.before[1], filter_date).data

(***************************************************************************)
(* Flights around the turn of a month and of a year, and the trend of a    *)
(* day against the day before                                              *)
(***************************************************************************)

\* Rows of a flight report: the last day of 2025, two flights on the first
\* day of 2026 and a departure in its night (operating day 31/12/25), the
\* leap day of 2024 and the last day of February 2025.
SampleTrendRows ==
    <<FlightRow(Some(<<31, 12, 25>>), "VN-A320", "VJ101", Colon(8, 0),
                Colon(10, 0), <<>>),
      FlightRow(Some(<<1, 1, 26>>), "VN-A321", "VJ102", Colon(12, 0),
                Colon(14, 0), <<>>),
      FlightRow(Some(<<1, 1, 26>>), "VN-A320", "VJ103", Colon(1, 0),
                Colon(2, 0), <<>>),
      FlightRow(Some(<<29, 2, 24>>), "VN-A320", "VJ104", Colon(9, 0),
                Colon(10, 0), <<>>),
      FlightRow(Some(<<1, 1, 26>>), "VN-A321", "VJ105", Colon(15, 0),
                Colon(16, 0), <<>>),
      FlightRow(Some(<<28, 2, 25>>), "VN-A320", "VJ106", Colon(9, 0),
                Colon(10, 0), <<>>)>>

MaxTrendRows == 3

\* the rows of a report at the positions of S, in the order of the report
RECURSIVE PickRows(_, _)
PickRows(rows, S) ==
    IF S = {} THEN <<>>
    ELSE LET i == CHOOSE x \in S : \A y \in S : x <= y
         IN <<rows[i]>> \o PickRows(rows, S \ {i})

\* reports of up to MaxTrendRows of the sample rows
TrendReports ==
    {PickRows(SampleTrendRows, S) :
        S \in {T \in SUBSET (1..Len(SampleTrendRows)) :
                  Cardinality(T) <= MaxTrendRows}}

\* no filter, days after a day with and without flights, a day that is no
\* date of the calendar and text that is no date
TrendFilters ==
    {None, <<1, 1, 26>>, <<2, 1, 26>>, <<31, 12, 25>>, <<1, 3, 24>>,
     <<1, 3, 25>>, <<30, 2, 26>>, <<0, 0, 0>>}

ProcessTrendReport ==
    \E rows \in TrendReports :
        /\ processor' = process_dayrep_csv(processor,
                                           [kind |-> "rows", rows |-> rows])
        /\ served' = None
        /\ raised' = FALSE
        /\ last' = [op |-> "process_dayrep_csv", input |-> rows,
                    before |-> None]
        /\ UNCHANGED <<watcher, call, result>>

IndexTrend ==
    \E filter_date \in TrendFilters :
        \E r \in {index(processor, filter_date, NoAims)} :
            /\ processor' = r.st
            /\ served' = r.data
            /\ raised' = r.raised
            /\ last' = [op |-> "index",
                        input |-> [filter_date |-> filter_date,
                                   source |-> "csv"],
                        before |-> Some(processor)]
            /\ UNCHANGED <<watcher, call, result>>

NextTrend ==
    \/ ProcessTrendReport
    \/ IndexTrend

SpecTrend == Init /\ [][NextTrend]_vars

\* the year a two-digit year stands for
FullYear(date) == IF date[3] < 69 THEN 2000 + date[3] ELSE 1900 + date[3]

\* the date is a day of the calendar
IsCalendarDate(date) ==
    /\ date[2] \in 1..12
    /\ date[1] >= 1
    /\ IF date[2] = 12 THEN date[1] <= 31
       ELSE OrdinalOf(FullYear(date), date[2], date[1])
                < OrdinalOf(FullYear(date), date[2] + 1, 1)

\* the days with flights that are the day before the filter date
DaysBefore(flights_by_date, filter_date) ==
    IF filter_date = None THEN {}
    ELSE {q \in DOMAIN flights_by_date :
             /\ IsCalendarDate(filter_date)
             /\ IsPreviousDay(q, filter_date, FullYear(filter_date))
             /\ Len(flights_by_date[q]) > 0}

\* C24: with a filter date whose preceding calendar day has p > 0 flights,
\* flight_trend is (total_flights - p) / p x 100 and the direction is up,
\* down or neutral by the sign of total_flights - p; without filter date,
\* with one that is no date, or with no flights on the preceding day the
\* trend is 0 and the direction neutral; no error is raised.
C24_FlightTrend ==
    last.op = "index"
    => /\ ~raised
       /\ served # None
       /\ LET summary == served[1].summary
              before == DaysBefore(processor.flights_by_date,
                                   last.input.filter_date)
          IN IF before # {}
             THEN \E q \in before :
                    LET p == Len(processor.flights_by_date[q])
                        diff == summary.total_flights - p
                    IN /\ summary.flight_trend = Rate(diff * 100, p)
                       /\ summary.flight_trend_direction =
                              (IF diff > 0 THEN "up"
                               ELSE IF diff < 0 THEN "down" ELSE "neutral")
             ELSE /\ summary.flight_trend = Rate(0, 1)
                  /\ summary.flight_trend_direction = "neutral"

\* C24 happens: the first day of 2026 has one flight and the last day of
\* 2025 two, one of them the night departure: the trend is -50 %, down.
C24_Witness ==
    /\ last.op = "index"
    /\ last.input.filter_date = <<1, 1, 26>>
    /\ served # None
    /\ Len(Get(processor.flights_by_date, <<31, 12, 25>>, <<>>)) = 2
    /\ served[1].summary.total_flights = 1
    /\ served[1].summary.flight_trend = Rate(-100, 2)
    /\ served[1].summary.flight_trend_direction = "down"

(***************************************************************************)
(* The reference month and year of a crew duty report in matrix layout     *)
(***************************************************************************)

RefDate(month, year) == [month |-> month, year |-> year]

\* What the name of the file read carries ("Feb2026"), None when the name
\* carries no month and year or the report came as uploaded content.
FilenameRefs == {None, Some(RefDate(2, 2026)), Some(RefDate(12, 2025))}

\* What the first ten lines carry: a "Period: DD/MM/YYYY" marker, a
\* "DD Mon YYYY" line, or neither.
HeaderRefs ==
    {None}
    \cup {Some([kind |-> k, month |-> r.month, year |-> r.year]) :
             k \in {"period", "date_line"},
             r \in {RefDate(1, 2026), RefDate(3, 2025), RefDate(1, 2024)}}

\* the system date while the report is parsed: month and year
SystemDates == {RefDate(11, 2026), RefDate(6, 2025), RefDate(1, 2027)}

\* Lines 1002-1046 of process_crew_schedule_csv: the system date, replaced
\* by what the file name carries, replaced by what the header carries.
ReferenceDate(filename_ref, header_ref, now) ==
    LET of_name == IF filename_ref # None THEN filename_ref[1] ELSE now
    IN IF header_ref # None
       THEN RefDate(header_ref[1].month, header_ref[1].year)
       ELSE of_name

ScheduleFiles ==
    [filename_ref : FilenameRefs, header_ref : HeaderRefs, now : SystemDates,
     rows : {<<DutyRow(Some(111), "AN",
                       << <<"S", "B", "Y">>, <<"S", "L">>, <<>> >>,
                       0, 0, 0, 0)>>,
             <<DutyRow(Some(222), "BINH",
                       << <<>>, <<"C", "S", "L">>, <<"O", "F", "F">> >>,
                       0, 0, 0, 0)>>},
     day_cols : {<<1, 16, 31>>}]

\* A crew duty report in matrix layout is parsed, with its file name, its
\* header and the system date of the moment.
ProcessScheduleFile ==
    \E file \in ScheduleFiles :
        \E ref \in {ReferenceDate(file.filename_ref, file.header_ref,
                                  file.now)} :
            /\ processor' = process_crew_schedule_csv(
                                processor,
                                [kind |-> "content", layout |-> "matrix",
                                 rows |-> file.rows,
                                 day_cols |-> file.day_cols,
                                 month |-> ref.month, year |-> ref.year,
                                 now_year |-> file.now.year])
            /\ served' = None
            /\ raised' = FALSE
            /\ last' = [op |-> "process_schedule_file", input |-> file,
                        before |-> None]
            /\ UNCHANGED <<watcher, call, result>>

NextRef == ProcessScheduleFile

SpecRef == InitCrew /\ [][NextRef]_vars

\* the month and year the report names: the header's when it has a marker,
\* else the file name's
NamedRef(file) ==
    IF file.header_ref # None
    THEN RefDate(file.header_ref[1].month, file.header_ref[1].year)
    ELSE file.filename_ref[1]

\* C25: every duty record of a matrix report is dated day/MM/YY, the day of
\* its column with the month and year the report names, in its header if
\* it has a marker and else in its file name, whatever the system date.
C25_ReferenceDate ==
    (/\ last.op = "process_schedule_file"
     /\ last.input.header_ref # None \/ last.input.filename_ref # None)
    => LET file == last.input
           ref == NamedRef(file)
           records == processor.standby_records
           cells == {<<r, c>> \in (1..Len(file.rows)) \X (1..Len(file.day_cols)) :
                         file.rows[r].cells[c] # <<>>}
       IN /\ Len(records) = Cardinality(cells)
          /\ \A rc \in cells :
                 \E i \in 1..Len(records) :
                     /\ records[i].crew_id = file.rows[rc[1]].crew_id[1]
                     /\ records[i].duty_date =
                            <<file.day_cols[rc[2]], ref.month, ref.year % 100>>
          /\ \A i \in 1..Len(records) :
                 /\ records[i].duty_date[2] = ref.month
                 /\ records[i].duty_date[3] = ref.year % 100

(***************************************************************************)
(* The flight indices after parses and store loads                         *)
(***************************************************************************)

\* A flight report of one crew pair whose flights are not listed day by
\* day, with a night departure of the day before, a flight without a
\* readable arrival time and a flight over midnight.
SampleIndexRows ==
    <<FlightRow(Some(<<15, 1, 26>>), "VN-A320", "VJ101", Colon(8, 0),
                Colon(10, 0),
                <<Member("AN", "CP", 111), Member("BINH", "FO", 222)>>),
      FlightRow(Some(<<16, 1, 26>>), "VN-A321", "VJ102", Colon(23, 0),
                Colon(1, 0),
                <<Member("BINH", "FO", 222), Member("AN", "CP", 111)>>),
      FlightRow(Some(<<15, 1, 26>>), "A6-XYZ", "VJ103", Colon(15, 0),
                Colon(16, 0),
                <<Member("AN", "CP", 111), Member("BINH", "FO", 222)>>),
      FlightRow(Some(<<16, 1, 26>>), "VN-A320", "VJ104", Colon(1, 0),
                Colon(2, 0), <<Member("AN", "FA", 111)>>),
      FlightRow(Some(<<16, 1, 26>>), "VN-A320", "VJ105", Colon(9, 0),
                GarbageTime, <<>>)>>

MaxIndexRows == 3

\* reports of up to MaxIndexRows of the sample rows, in their order
IndexReports ==
    {PickRows(SampleIndexRows, S) :
        S \in {T \in SUBSET (1..Len(SampleIndexRows)) :
                  Cardinality(T) <= MaxIndexRows}}

\* the flights table after a server parsed the report and synced it
\* (lines 562-579)
SyncedFlights(report) ==
    process_dayrep_csv(DataProcessorInit,
                       [kind |-> "rows", rows |-> report]).flights

\* A flight report is parsed.
IndexParse ==
    \E report \in IndexReports :
        /\ processor' = process_dayrep_csv(processor,
                                           [kind |-> "rows", rows |-> report])
        /\ served' = None
        /\ raised' = FALSE
        /\ last' = [op |-> "process_dayrep_csv", input |-> report,
                    before |-> None]
        /\ UNCHANGED <<watcher, call, result>>

\* refresh_data with the store connected: load_from_supabase into the
\* processor in use, of the flights some server synced last.
IndexStoreLoad ==
    \E report \in IndexReports,
       fact_actuals \in {[outcome |-> "missing"],
                         [outcome |-> "rows", rows |-> <<>>]} :
        \E r \in {load_stored_records(
                      processor,
                      [flights |-> SyncedFlights(report),
                       crew_schedule |-> {},
                       standby_records |-> <<>>,
                       fact_actuals |-> fact_actuals])} :
            /\ processor' = r.st
            /\ served' = None
            /\ raised' = r.raised
            /\ last' = [op |-> "load_from_supabase", input |-> report,
                        before |-> None]
            /\ UNCHANGED <<watcher, call, result>>

NextIndex ==
    \/ IndexParse
    \/ IndexStoreLoad

SpecIndex == Init /\ [][NextIndex]_vars

\* the total over the operating dates of the per-date entries of a key
TotalByDate(by_date, key) ==
    SumOver([d \in DOMAIN by_date |-> Get(by_date[d], key, 0)], DOMAIN by_date)

KeysByDate(by_date) == UNION {DOMAIN by_date[d] : d \in DOMAIN by_date}

\* global hours and counts are the sums of the per-date entries
HoursAndCountsSum(st) ==
    /\ DOMAIN st.reg_flight_hours = KeysByDate(st.reg_flight_hours_by_date)
    /\ DOMAIN st.reg_flight_count = KeysByDate(st.reg_flight_count_by_date)
    /\ \A reg \in DOMAIN st.reg_flight_hours :
           st.reg_flight_hours[reg]
               = TotalByDate(st.reg_flight_hours_by_date, reg)
    /\ \A reg \in DOMAIN st.reg_flight_count :
           st.reg_flight_count[reg]
               = TotalByDate(st.reg_flight_count_by_date, reg)

\* the registrations of a crew member are the union of the per-date sets
CrewRegsUnion(st) ==
    /\ DOMAIN st.crew_to_regs = KeysByDate(st.crew_to_regs_by_date)
    /\ \A c \in DOMAIN st.crew_to_regs :
           st.crew_to_regs[c]
               = UNION {Get(st.crew_to_regs_by_date[d], c, {}) :
                           d \in DOMAIN st.crew_to_regs_by_date}

\* flights_by_date holds every flight once, under its operating date, in
\* the order of the flight collection
FlightsPartition(st) ==
    /\ \A i \in 1..Len(st.flights) :
           st.flights[i].date \in DOMAIN st.flights_by_date
    /\ \A d \in DOMAIN st.flights_by_date :
           st.flights_by_date[d]
               = SelectSeq(st.flights, LAMBDA f : f.date = d)

RECURSIVE ConcatByDate(_, _, _)
ConcatByDate(by_date, key, dates) ==
    IF dates = <<>> THEN <<>>
    ELSE Get(by_date[Head(dates)], key, <<>>)
             \o ConcatByDate(by_date, key, Tail(dates))

\* the orders the operating dates can be taken in
DateOrders(S) ==
    {q \in DistinctSeqs(S, Cardinality(S)) : Len(q) = Cardinality(S)}

\* the global list of every crew group is its per-date lists one after the
\* other, in some order of the dates
GroupsConcatenate(st) ==
    /\ DOMAIN st.crew_group_rotations
           = KeysByDate(st.crew_group_rotations_by_date)
    /\ \A k \in DOMAIN st.crew_group_rotations :
           \E dates \in DateOrders(DOMAIN st.crew_group_rotations_by_date) :
               st.crew_group_rotations[k]
                   = ConcatByDate(st.crew_group_rotations_by_date, k, dates)

Occurrences(seq, x) == Cardinality({i \in 1..Len(seq) : seq[i] = x})

\* the global list of every crew group holds each registration as often as
\* its per-date lists together
GroupsSameRegistrations(st) ==
    /\ DOMAIN st.crew_group_rotations
           = KeysByDate(st.crew_group_rotations_by_date)
    /\ \A k \in DOMAIN st.crew_group_rotations :
           \A reg \in Range(st.crew_group_rotations[k])
                      \cup UNION {Range(Get(
                                      st.crew_group_rotations_by_date[d],
                                      k, <<>>)) :
                                  d \in DOMAIN st.crew_group_rotations_by_date} :
               Occurrences(st.crew_group_rotations[k], reg)
                   = SumOver([d \in DOMAIN st.crew_group_rotations_by_date |->
                                 Occurrences(Get(
                                     st.crew_group_rotations_by_date[d],
                                     k, <<>>), reg)],
                             DOMAIN st.crew_group_rotations_by_date)

C27_CrewCounts ==
    (last.op = "index" /\ served # None)
    => LET data == served[1]
           crew == data.operating_crew
       IN /\ data.summary.total_crew = Len(crew)
          /\ data.summary.total_crew
                 = SumOver(data.crew_roles, DOMAIN data.crew_roles)
          /\ \A i, j \in 1..Len(crew) : crew[i].id = crew[j].id => i = j
          /\ data.summary.crew_rotation_count >= Len(data.crew_rotations)

\* the snapshot of all dates of two flights of one crew pair on two aircraft
C27_Witness ==
    /\ last.op = "index"
    /\ served # None
    /\ last.input.filter_date = None
    /\ Len(processor.flights) = 2
    /\ served[1].summary.total_crew = 2
    /\ Len(served[1].operating_crew) = 2
    /\ served[1].summary.crew_rotation_count = 1

(***************************************************************************)
(* The duty rollups against the duty records of a parse                    *)
(***************************************************************************)

\* the records of a duty type, and of a duty type on a date
RecordsOfType(records, t) == {i \in 1..Len(records) : records[i].duty_type = t}

RecordsOfDateType(records, d, t) ==
    {i \in RecordsOfType(records, t) : records[i].duty_date = d}

\* the counts a standard row gives per type
StandardCount(row, t) ==
    CASE t = "SL" -> row.sl
      [] t = "CSL" -> row.csl
      [] t = "SBY" -> row.sby
      [] t = "OSBY" -> row.osby
      [] OTHER -> 0

\* C28: after a parse of a crew duty report in matrix or standard layout,
\* the count of every date and duty type in crew_schedule_by_date is the
\* number of duty records of that date and type, and the count of every
\* duty type in the global summary is the number of records of the type;
\* in standard layout a crew row with count c for a type gives exactly c
\* records, all dated the representative day 15 of the report's month.
C28_DutyRollup ==
    (/\ last.op = "process_crew_schedule_csv"
     /\ last.input.kind = "content")
    => LET input == last.input
           records == processor.standby_records
           by_date == processor.crew_schedule_by_date
           dates == DOMAIN by_date
                    \cup {records[i].duty_date : i \in 1..Len(records)}
       IN /\ \A d \in dates, t \in DutyTypes :
                 Get(Get(by_date, d, EmptyDict), t, 0)
                     = Cardinality(RecordsOfDateType(records, d, t))
          /\ \A t \in DutyTypes :
                 processor.crew_schedule.summary[t]
                     = Cardinality(RecordsOfType(records, t))
          /\ \A i \in 1..Len(records) : records[i].duty_type \in DutyTypes
          /\ input.layout = "standard"
             => /\ \A r \in 1..Len(input.rows), t \in DutyTypes :
                       Cardinality({i \in RecordsOfType(records, t) :
                                       records[i].crew_id
                                           = input.rows[r].crew_id[1]})
                           = StandardCount(input.rows[r], t)
                /\ \A i \in 1..Len(records) :
                       records[i].duty_date
                           = <<15, input.month, input.year % 100>>

\* a standard report of two crew rows, one with two standby duties, parsed
\* over what an earlier report left
C28_Witness ==
    /\ last.op = "process_crew_schedule_csv"
    /\ last.input.kind = "content"
    /\ last.input.layout = "standard"
    /\ Len(last.input.rows) = 2
    /\ processor.crew_schedule.summary["SBY"] = 2
    /\ Len(processor.standby_records) = 5

(***************************************************************************)
(* The refresh flag of api_server.py: the watcher thread and upload        *)
(* requests set pending_refresh, check_updates requests read and clear it. *)
(* No lock guards the flag, so the threads interleave statement by         *)
(* statement.                                                              *)
(***************************************************************************)

MaxFlagSets == 2
MaxPolls == 3

\* call holds the module globals and the frames of the requests in flight,
\* result the history of the flag: every assignment of True and every
\* answer of a poll.
FlagEvent(ev, has_update) == [ev |-> ev, has_update |-> has_update]

InitFlag ==
    /\ processor = DataProcessorInit
    /\ served = None
    /\ raised = FALSE
    /\ last = NoOp
    /\ watcher = Idle
    /\ call = [pending_refresh |-> FALSE,
               poll |-> [pc |-> "idle", has_update |-> FALSE],
               upload |-> [pc |-> "idle"]]
    /\ result = <<>>

FlagSets == Cardinality({i \in 1..Len(result) : result[i].ev = "set"})

PollsAnswered == Cardinality({i \in 1..Len(result) : result[i].ev = "poll"})

\* the changed files the watcher is told of and the files uploaded: a
\* flight report with one flight, one without flights, and (for the
\* watcher) a file that is no report
FlagFiles ==
    {[kind |-> "rows", rows |-> <<>>],
     [kind |-> "rows",
      rows |-> <<FlightRow(Some(<<15, 1, 26>>), "VN-A320", "VJ101",
                           Colon(8, 0), Colon(10, 0), <<>>)>>]}

\* on_csv_file_change, lines 57-82: the report is parsed on the watcher
\* thread; a file of unknown type ends the callback at line 82.
WatcherParse ==
    \E file \in FlagFiles \cup {[kind |-> "unknown"]} :
        /\ watcher.pc = "idle"
        /\ FlagSets + (IF call.upload.pc = "parsed" THEN 1 ELSE 0) < MaxFlagSets
        /\ processor' = IF file.kind = "unknown" THEN processor
                        ELSE process_dayrep_csv(processor, file)
        /\ watcher' = IF file.kind = "unknown" THEN Idle
                      ELSE [pc |-> "parsed", rows |-> <<>>]
        /\ last' = [op |-> "on_csv_file_change", input |-> file,
                    before |-> None]
        /\ UNCHANGED <<served, raised, call, result>>

\* line 84: pending_refresh = True
WatcherSetFlag ==
    /\ watcher.pc = "parsed"
    /\ call' = [call EXCEPT !.pending_refresh = TRUE]
    /\ watcher' = Idle
    /\ result' = Append(result, FlagEvent("set", FALSE))
    /\ UNCHANGED <<processor, served, raised, last>>

\* upload_files, lines 157-202: the uploaded report is parsed; without a
\* record uploaded_any stays False and the request ends.
UploadParse ==
    \E file \in FlagFiles :
        /\ call.upload.pc = "idle"
        /\ FlagSets + (IF watcher.pc = "parsed" THEN 1 ELSE 0) < MaxFlagSets
        /\ processor' = process_dayrep_csv(processor, file)
        /\ call' = [call EXCEPT
                       !.upload.pc =
                           IF Len(processor'.flights) > 0 THEN "parsed"
                           ELSE "idle"]
        /\ last' = [op |-> "upload_files", input |-> file, before |-> None]
        /\ UNCHANGED <<served, raised, watcher, result>>

\* lines 204-207: pending_refresh = True
UploadSetFlag ==
    /\ call.upload.pc = "parsed"
    /\ call' = [call EXCEPT !.pending_refresh = TRUE, !.upload.pc = "idle"]
    /\ result' = Append(result, FlagEvent("set", FALSE))
    /\ UNCHANGED <<processor, served, raised, last, watcher>>

\* check_updates, line 148: has_update = pending_refresh
PollRead ==
    /\ call.poll.pc = "idle"
    /\ PollsAnswered < MaxPolls
    /\ call' = [call EXCEPT !.poll = [pc |-> "read",
                                      has_update |-> call.pending_refresh]]
    /\ UNCHANGED <<processor, served, raised, last, watcher, result>>

\* line 149: pending_refresh = False
PollClear ==
    /\ call.poll.pc = "read"
    /\ call' = [call EXCEPT !.pending_refresh = FALSE, !.poll.pc = "cleared"]
    /\ UNCHANGED <<processor, served, raised, last, watcher, result>>

\* lines 151-155: the answer
PollReturn ==
    /\ call.poll.pc = "cleared"
    /\ call' = [call EXCEPT !.poll = [pc |-> "idle", has_update |-> FALSE]]
    /\ result' = Append(result, FlagEvent("poll", call.poll.has_update))
    /\ last' = [op |-> "check_updates", input |-> None, before |-> None]
    /\ UNCHANGED <<processor, served, raised, watcher>>

NextFlag ==
    \/ WatcherParse
    \/ WatcherSetFlag
    \/ UploadParse
    \/ UploadSetFlag
    \/ PollRead
    \/ PollClear
    \/ PollReturn

SpecFlag == InitFlag /\ [][NextFlag]_vars

\* the answers of the polls that end after position s of the history
AnswersAfter(s) ==
    SelectSeq(SubSeq(result, s + 1, Len(result)), LAMBDA e : e.ev = "poll")

\* C29: when a watcher re-parse or an upload sets pending_refresh before
\* or while a poll executes, that poll or the next one answers has_update
\* = true, however the watcher thread and the request threads interleave.
C29_NoLostUpdate ==
    \A s \in 1..Len(result) :
        (result[s].ev = "set" /\ Len(AnswersAfter(s)) >= 2)
        => (AnswersAfter(s)[1].has_update \/ AnswersAfter(s)[2].has_update)

(***************************************************************************)
(* ETLScheduler.run_etl_job of etl_scheduler.py                            *)
(***************************************************************************)

MaxEtlRuns == 3

\* ETLScheduler.__init__, lines 37-49; "clock" is the time of the system
\* and "callbacks" the runs whose on_success was called.
ETLSchedulerInit ==
    [last_run |-> None, last_status |-> None, on_success |-> "none",
     clock |-> 0, callbacks |-> {}]

\* What a fetch of the roster source does: it raises, reports a failure,
\* or returns a list of n entries.
FetchOutcomes ==
    {[outcome |-> "raise", count |-> 0], [outcome |-> "failed", count |-> 0],
     [outcome |-> "ok", count |-> 0], [outcome |-> "ok", count |-> 2]}

\* the world of one run: _get_aims_client gives a client, None or raises,
\* the two fetches, and the time the run takes
EtlWorlds ==
    [client : {"client", "none", "raise"},
     flights : FetchOutcomes, crew : FetchOutcomes, elapsed : {1}]

\* on_success is called whenever it is set.
CallbackWhenSet(job_result, on_success) == on_success # "none"

\* line 142: result['flights_synced'] > 0 and self.on_success
CallbackDue(job_result, on_success) ==
    job_result.flights_synced > 0 /\ on_success # "none"

\* The try block of lines 82-131 with its except clause of lines 129-131:
\* the result dict as the finally clause finds it.
EtlTry(result0, world) ==
    LET fail(r, msg) == [r EXCEPT !.errors = Append(@, msg)]
        after_flights ==
            IF world.flights.outcome = "ok"
            THEN [result0 EXCEPT !.flights_synced = world.flights.count]
            ELSE fail(result0, "Flight fetch error")
        after_crew ==
            IF world.crew.outcome = "ok"
            THEN [after_flights EXCEPT !.crew_synced = world.crew.count]
            ELSE fail(after_flights, "Crew fetch error")
    IN IF world.client = "raise" THEN fail(result0, "exception")
       ELSE IF world.client = "none"
       THEN fail(result0, "AIMS client not available")
       ELSE IF world.flights.outcome = "raise" THEN fail(result0, "exception")
       ELSE IF world.crew.outcome = "raise"
       THEN fail(after_flights, "exception")
       ELSE [after_crew EXCEPT !.success = (after_crew.errors = <<>>)]

\* ETLScheduler.run_etl_job, lines 59-149: the scheduler after the run,
\* the dict returned and whether an exception left the method.
\* Line 129 catches what the body raises and line 145 what the callback
\* raises, so the method always returns.
run_etl_job(self, world) ==
    LET start_time == self.clock
        result0 == [success |-> FALSE, start_time |-> start_time,
                    end_time |-> None, duration_seconds |-> 0,
                    flights_synced |-> 0, crew_synced |-> 0,
                    errors |-> <<>>]
        end_time == start_time + world.elapsed
        job_result == [EtlTry(result0, world) EXCEPT
                          !.end_time = Some(end_time),
                          !.duration_seconds = end_time - start_time]
        called == CallbackDue(job_result, self.on_success)
    IN [self |-> [self EXCEPT
                     !.last_run = Some(start_time),
                     !.last_status = Some(job_result),
                     !.clock = end_time,
                     !.callbacks = IF called THEN @ \cup {start_time} ELSE @],
        returned |-> job_result,
        raised |-> FALSE]

InitEtl ==
    /\ processor = DataProcessorInit
    /\ served = None
    /\ raised = FALSE
    /\ last = NoOp
    /\ watcher = Idle
    /\ call = ETLSchedulerInit
    /\ result = None

\* The owner of the scheduler sets or removes the on_success callback: one
\* that returns, or one that raises.
SetOnSuccess ==
    \E cb \in {"none", "returns", "raises"} :
        /\ cb # call.on_success
        /\ call' = [call EXCEPT !.on_success = cb]
        /\ last' = [op |-> "set_on_success", input |-> None, before |-> None]
        /\ UNCHANGED <<processor, served, raised, watcher, result>>

\* One run of the job, by the interval trigger or by hand.
RunEtlJob ==
    \E world \in EtlWorlds :
        \E r \in {run_etl_job(call, world)} :
            /\ call.clock < MaxEtlRuns
            /\ call' = r.self
            /\ result' = Some(r.returned)
            /\ raised' = r.raised
            /\ last' = [op |-> "run_etl_job", input |-> world,
                        before |-> Some(call)]
            /\ UNCHANGED <<processor, served, watcher>>

NextEtl ==
    \/ SetOnSuccess
    \/ RunEtlJob

SpecEtl == InitEtl /\ [][NextEtl]_vars

\* the run fetched at least one flight
FetchedFlights(world) ==
    /\ world.client = "client"
    /\ world.flights.outcome = "ok"
    /\ world.flights.count >= 1

\* C30: after every run of the job, whether it completes, finds AIMS
\* unavailable or hits an exception, last_status is the result the run
\* returned and last_run the time it started, the result's success flag is
\* true exactly when its list of errors is empty, on_success was called
\* for the run only if the run fetched at least one flight, and no
\* exception of the callback leaves run_etl_job.
C30_EtlStatus ==
    last.op = "run_etl_job"
    => LET before == last.before[1]
           start_time == before.clock
       IN /\ result # None
          /\ call.last_status = result
          /\ call.last_run = Some(start_time)
          /\ result[1].start_time = start_time
          /\ result[1].success <=> (result[1].errors = <<>>)
          /\ start_time \in call.callbacks => FetchedFlights(last.input)
          /\ call.callbacks \ {start_time} = before.callbacks
          /\ ~raised

\* a second run that fetched flights and then hit an exception, with a
\* callback that raises: the callback was called, the run reports failure
C30_Witness ==
    /\ last.op = "run_etl_job"
    /\ last.before[1].last_run # None
    /\ last.input.crew.outcome = "raise"
    /\ call.on_success = "raises"
    /\ call.last_run[1] \in call.callbacks
    /\ ~result[1].success
    /\ result[1].flights_synced = 2

====
